---------------------------- MODULE Spec2Model ----------------------------
(***************************************************************************)
(* Model of the bank-statement ingestion engine of finance-manager-        *)
(* categorizer (backend/app/services/file_processor.py, models/            *)
(* transaction.py).                                                        *)
(*                                                                         *)
(* Conventions.                                                            *)
(*  - A Python str is a sequence of one-character strings, so that strip,  *)
(*    lower, substring tests and the regular expressions of the source     *)
(*    are computed character by character.                                 *)
(*  - A money value (Python float) is an integer number of hundredths;     *)
(*    the inputs carry at most two decimals.                               *)
(*  - An Optional[X] value is <<>> for None and <<x>> for x.  A cell of a  *)
(*    table or of a csv row is a str or NoneCell.                          *)
(*  - A Python dict is a sequence of <<key, value>> pairs with distinct    *)
(*    keys, in insertion order.                                            *)
(***************************************************************************)
EXTENDS Integers, Sequences, FiniteSets, TLC

(***************************************************************************)
(* Characters and strings                                                  *)
(***************************************************************************)
SetMax(S) == CHOOSE x \in S : \A y \in S : y <= x

SetMin(S) == CHOOSE x \in S : \A y \in S : x <= y

DigitChars == {"0", "1", "2", "3", "4", "5", "6", "7", "8", "9"}

UpperChars == {"A", "B", "C", "D", "E", "F", "G", "H", "I", "J", "K", "L", "M",
               "N", "O", "P", "Q", "R", "S", "T", "U", "V", "W", "X", "Y", "Z"}

LowerChars == {"a", "b", "c", "d", "e", "f", "g", "h", "i", "j", "k", "l", "m",
               "n", "o", "p", "q", "r", "s", "t", "u", "v", "w", "x", "y", "z"}

SpaceChars == {" ", "\t", "\n"}

IsDigit(c) == c \in DigitChars

IsSpace(c) == c \in SpaceChars

\* \w of the re module: letters, digits and the underscore
IsWordChar(c) == c \in DigitChars \cup UpperChars \cup LowerChars \cup {"_"}

DigitVal(c) ==
    CASE c = "0" -> 0 [] c = "1" -> 1 [] c = "2" -> 2 [] c = "3" -> 3
      [] c = "4" -> 4 [] c = "5" -> 5 [] c = "6" -> 6 [] c = "7" -> 7
      [] c = "8" -> 8 [] c = "9" -> 9

UpperSeq == <<"A", "B", "C", "D", "E", "F", "G", "H", "I", "J", "K", "L", "M",
              "N", "O", "P", "Q", "R", "S", "T", "U", "V", "W", "X", "Y", "Z">>

LowerSeq == <<"a", "b", "c", "d", "e", "f", "g", "h", "i", "j", "k", "l", "m",
              "n", "o", "p", "q", "r", "s", "t", "u", "v", "w", "x", "y", "z">>

\* the character of the sequence to that stands where c stands in from
MapChar(c, from, to) ==
    IF \E i \in 1..Len(from) : from[i] = c
    THEN to[CHOOSE i \in 1..Len(from) : from[i] = c]
    ELSE c

\* the list a comprehension builds, element by element
List(f) == f \o <<>>

\* str.lower()
StrLower(s) == List([i \in 1..Len(s) |-> MapChar(s[i], UpperSeq, LowerSeq)])

\* str.upper()
StrUpper(s) == List([i \in 1..Len(s) |-> MapChar(s[i], LowerSeq, UpperSeq)])

RECURSIVE LStrip(_)
LStrip(s) == IF s # <<>> /\ IsSpace(Head(s)) THEN LStrip(Tail(s)) ELSE s

RECURSIVE RStrip(_)
RStrip(s) ==
    IF s # <<>> /\ IsSpace(s[Len(s)]) THEN RStrip(SubSeq(s, 1, Len(s) - 1)) ELSE s

\* str.strip()
StrStrip(s) == RStrip(LStrip(s))

\* str.replace(a, b) for one-character a and b
ReplaceChar(s, a, b) == List([i \in 1..Len(s) |-> IF s[i] = a THEN b ELSE s[i]])

\* re.sub('[...]', '', s) and str.replace(c, ''): the characters of cs removed
RemoveChars(s, cs) == SelectSeq(s, LAMBDA c : c \notin cs)

\* p == s[i : i + len(p)]  (i counted from 1)
MatchAt(p, s, i) == i + Len(p) - 1 <= Len(s) /\ SubSeq(s, i, i + Len(p) - 1) = p

\* p in s
Contains(s, p) == \E i \in 1..(Len(s) - Len(p) + 1) : MatchAt(p, s, i)

\* any(keyword in s for keyword in keywords)
AnyIn(keywords, s) == \E keyword \in keywords : Contains(s, keyword)

\* s.startswith(p)
StartsWith(s, p) == MatchAt(p, s, 1)

RECURSIVE JoinWith(_, _)
\* sep.join(parts)
JoinWith(parts, sep) ==
    IF parts = <<>> THEN <<>>
    ELSE IF Len(parts) = 1 THEN parts[1]
    ELSE parts[1] \o sep \o JoinWith(Tail(parts), sep)

\* the first index of s that holds c (0: none)
IndexOf(s, c) ==
    IF \A i \in 1..Len(s) : s[i] # c THEN 0
    ELSE CHOOSE i \in 1..Len(s) : s[i] = c /\ \A j \in 1..(i - 1) : s[j] # c

RECURSIVE SplitOn(_, _)
RECURSIVE SplitAt(_, _, _)
\* s.split(c) for a one-character c: the fields between the occurrences of c
SplitOn(s, c) == SplitAt(s, c, IndexOf(s, c))

SplitAt(s, c, k) ==
    IF k = 0 THEN <<s>>
    ELSE <<SubSeq(s, 1, k - 1)>> \o SplitOn(SubSeq(s, k + 1, Len(s)), c)

\* the value of a run of digits
RECURSIVE DigitsVal(_)
DigitsVal(ds) ==
    IF ds = <<>> THEN 0
    ELSE 10 * DigitsVal(SubSeq(ds, 1, Len(ds) - 1)) + DigitVal(ds[Len(ds)])

\* str.isdigit()
AllDigits(s) == s # <<>> /\ \A i \in 1..Len(s) : IsDigit(s[i])

\* character tests at a position that may lie outside the string
DigitAt(s, i) == i \in 1..Len(s) /\ IsDigit(s[i])

LetterAt(s, i) == i \in 1..Len(s) /\ s[i] \in UpperChars \cup LowerChars

CharAt(s, i, cs) == i \in 1..Len(s) /\ s[i] \in cs

SpacesAt(s, a, b) == a <= b /\ \A k \in a..b : CharAt(s, k, SpaceChars)

WordAt(s, i) == i \in 1..Len(s) /\ IsWordChar(s[i])

RECURSIVE CollapseSpaces(_)
\* re.sub(r'\s+', ' ', s)
CollapseSpaces(s) ==
    IF s = <<>> THEN <<>>
    ELSE IF IsSpace(s[1])
        THEN <<" ">> \o CollapseSpaces(LStrip(s))
    ELSE <<s[1]>> \o CollapseSpaces(Tail(s))

(***************************************************************************)
(* Optional values                                                         *)
(***************************************************************************)
None == <<>>

Some(x) == <<x>>

IsNone(o) == o = <<>>

Val(o) == o[1]

\* o if it is not None, else the other
OrElse(o, other) == IF IsNone(o) THEN other ELSE o

\* the value of o, or the default for None
ValOr(o, default) == IF IsNone(o) THEN default ELSE Val(o)

\* a cell that holds None (an empty pdf cell, a csv field the row lacks)
NoneCell == <<"None">>

\* Python truthiness of a cell: not None and not the empty string
Truthy(cell) == cell # NoneCell /\ cell # <<>>

\* str(x) of a cell
PyStr(cell) == IF cell = NoneCell THEN <<"N", "o", "n", "e">> ELSE cell

(***************************************************************************)
(* Amount normalizer: FileProcessor._parse_amount                          *)
(***************************************************************************)
\* the end of the longest run of digits of s that starts at i (i - 1: none)
RECURSIVE DigitRunEnd(_, _)
DigitRunEnd(s, i) ==
    IF i <= Len(s) /\ IsDigit(s[i]) THEN DigitRunEnd(s, i + 1) ELSE i - 1

\* float() of digits, a dot and more digits, in hundredths
Hundredths(int_part, frac) ==
    100 * DigitsVal(int_part)
    + (IF Len(frac) >= 1 THEN 10 * DigitVal(frac[1]) ELSE 0)
    + (IF Len(frac) >= 2 THEN DigitVal(frac[2]) ELSE 0)

\* float() of the match of \d+\.?\d* whose leading digits are s[a..b]
NumberAt(s, a, b) ==
    Hundredths(SubSeq(s, a, b),
               IF CharAt(s, b + 1, {"."})
               THEN SubSeq(s, b + 2, DigitRunEnd(s, b + 2)) ELSE <<>>)

\* float() of the match of \d+\.?\d* that starts at a
NumberFrom(s, a) == NumberAt(s, a, DigitRunEnd(s, a))

\* float() of the first match of \d+\.?\d* in s, in hundredths; None: no match
FirstNumber(s) ==
    IF \A i \in 1..Len(s) : ~IsDigit(s[i]) THEN None
    ELSE Some(NumberFrom(s, SetMin({i \in 1..Len(s) : IsDigit(s[i])})))

\* [₹$€£,\s]: the currency signs, the comma and white space
CurrencyAndSpace == {"$", ","} \cup SpaceChars

\* "handle negative amounts and parentheses"
IsNegative(s) == s # <<>> /\ (s[1] = "-" \/ s[1] = "(" \/ s[Len(s)] = ")")

\* the rest of _parse_amount for the string without currency signs
SignedAmount(s) ==
    (IF IsNegative(s) THEN 0 - 1 ELSE 1)
    * ValOr(FirstNumber(IF IsNegative(s) THEN RemoveChars(s, {"-", "(", ")"}) ELSE s), 0)

ParseAmount(amount_str) ==
    IF StrStrip(amount_str) = <<>> THEN 0
    ELSE SignedAmount(RemoveChars(StrStrip(amount_str), CurrencyAndSpace))

(***************************************************************************)
(* Date normalizer: FileProcessor._parse_date and datetime.strptime        *)
(***************************************************************************)
MonthAbbr ==
    <<<<"j","a","n">>, <<"f","e","b">>, <<"m","a","r">>, <<"a","p","r">>, <<"m","a","y">>, <<"j","u","n">>,
      <<"j","u","l">>, <<"a","u","g">>, <<"s","e","p">>, <<"o","c","t">>, <<"n","o","v">>, <<"d","e","c">>>>

MonthFull ==
    <<<<"j","a","n","u","a","r","y">>, <<"f","e","b","r","u","a","r","y">>, <<"m","a","r","c","h">>, <<"a","p","r","i","l">>, <<"m","a","y">>, <<"j","u","n","e">>,
      <<"j","u","l","y">>, <<"a","u","g","u","s","t">>, <<"s","e","p","t","e","m","b","e","r">>, <<"o","c","t","o","b","e","r">>, <<"n","o","v","e","m","b","e","r">>,
      <<"d","e","c","e","m","b","e","r">>>>

IsLeap(y) == (y % 4 = 0 /\ y % 100 # 0) \/ y % 400 = 0

DaysIn(m, y) ==
    IF m = 2 THEN (IF IsLeap(y) THEN 29 ELSE 28)
    ELSE IF m \in {4, 6, 9, 11} THEN 30 ELSE 31

\* datetime.date(y, m, d) is a calendar date
ValidDate(y, m, d) == y >= 1 /\ m \in 1..12 /\ d >= 1 /\ d <= DaysIn(m, y)

\* the date of three parsed fields; None if a field did not parse or the
\* three are no calendar date
MakeDate(y, m, d) ==
    IF IsNone(y) \/ IsNone(m) \/ IsNone(d) THEN None
    ELSE IF ValidDate(Val(y), Val(m), Val(d))
        THEN Some([y |-> Val(y), m |-> Val(m), d |-> Val(d)])
    ELSE None

\* strptime's %d: 1-9, 01-31 or a blank and one digit
DayField(f) ==
    IF AllDigits(f) /\ Len(f) \in {1, 2} /\ DigitsVal(f) \in 1..31
        THEN Some(DigitsVal(f))
    ELSE IF Len(f) = 2 /\ f[1] = " " /\ IsDigit(f[2]) /\ f[2] # "0"
        THEN Some(DigitVal(f[2]))
    ELSE None

\* the index of a word in a list of names
NameIndex(names, word) ==
    IF \A i \in 1..Len(names) : names[i] # word THEN None
    ELSE Some(CHOOSE i \in 1..Len(names) : names[i] = word)

\* strptime's %m (1-9, 01-12), %b and %B (case-insensitive)
MonthField(f, kind) ==
    IF kind = "num"
    THEN IF AllDigits(f) /\ Len(f) \in {1, 2} /\ DigitsVal(f) \in 1..12
         THEN Some(DigitsVal(f)) ELSE None
    ELSE NameIndex(IF kind = "abbr" THEN MonthAbbr ELSE MonthFull, StrLower(f))

\* strptime's %Y (four digits) and %y (two digits, 69-99 -> 19xx, 00-68 -> 20xx)
YearField(f, digits) ==
    IF ~(AllDigits(f) /\ Len(f) = digits) THEN None
    ELSE IF digits = 4 THEN Some(DigitsVal(f))
    ELSE Some(IF DigitsVal(f) >= 69 THEN 1900 + DigitsVal(f) ELSE 2000 + DigitsVal(f))

\* a list of formats that tries the month-first format before the others
MonthFirstFormats ==
    << [sep |-> "/", day |-> 2, month |-> 1, year |-> 3, mon |-> "num",  yr |-> 4],
       [sep |-> "/", day |-> 1, month |-> 2, year |-> 3, mon |-> "num",  yr |-> 4],
       [sep |-> "-", day |-> 1, month |-> 2, year |-> 3, mon |-> "num",  yr |-> 4],
       [sep |-> ".", day |-> 1, month |-> 2, year |-> 3, mon |-> "num",  yr |-> 4],
       [sep |-> "/", day |-> 1, month |-> 2, year |-> 3, mon |-> "num",  yr |-> 2],
       [sep |-> "-", day |-> 1, month |-> 2, year |-> 3, mon |-> "num",  yr |-> 2],
       [sep |-> ".", day |-> 1, month |-> 2, year |-> 3, mon |-> "num",  yr |-> 2],
       [sep |-> " ", day |-> 1, month |-> 2, year |-> 3, mon |-> "abbr", yr |-> 4],
       [sep |-> "-", day |-> 1, month |-> 2, year |-> 3, mon |-> "abbr", yr |-> 4],
       [sep |-> " ", day |-> 1, month |-> 2, year |-> 3, mon |-> "full", yr |-> 4],
       [sep |-> "-", day |-> 3, month |-> 2, year |-> 1, mon |-> "num",  yr |-> 4] >>

\* self.date_formats, in the order they are tried; day, month, year give the
\* place of the field
DateFormats ==
    << [sep |-> "/", day |-> 1, month |-> 2, year |-> 3, mon |-> "num",  yr |-> 4],  \* %d/%m/%Y
       [sep |-> "-", day |-> 1, month |-> 2, year |-> 3, mon |-> "num",  yr |-> 4],  \* %d-%m-%Y
       [sep |-> ".", day |-> 1, month |-> 2, year |-> 3, mon |-> "num",  yr |-> 4],  \* %d.%m.%Y
       [sep |-> "/", day |-> 1, month |-> 2, year |-> 3, mon |-> "num",  yr |-> 2],  \* %d/%m/%y
       [sep |-> "-", day |-> 1, month |-> 2, year |-> 3, mon |-> "num",  yr |-> 2],  \* %d-%m-%y
       [sep |-> ".", day |-> 1, month |-> 2, year |-> 3, mon |-> "num",  yr |-> 2],  \* %d.%m.%y
       [sep |-> " ", day |-> 1, month |-> 2, year |-> 3, mon |-> "abbr", yr |-> 4],  \* %d %b %Y
       [sep |-> "-", day |-> 1, month |-> 2, year |-> 3, mon |-> "abbr", yr |-> 4],  \* %d-%b-%Y
       [sep |-> " ", day |-> 1, month |-> 2, year |-> 3, mon |-> "full", yr |-> 4],  \* %d %B %Y
       [sep |-> "-", day |-> 3, month |-> 2, year |-> 1, mon |-> "num",  yr |-> 4],  \* %Y-%m-%d
       [sep |-> "/", day |-> 2, month |-> 1, year |-> 3, mon |-> "num",  yr |-> 4] >> \* %m/%d/%Y

\* the fields of s for a format; a blank of the format matches \s+
FormatFields(s, sep) ==
    IF sep = " "
    THEN SelectSeq(SplitOn(ReplaceChar(ReplaceChar(s, "\t", " "), "\n", " "), " "),
                   LAMBDA f : f # <<>>)
    ELSE SplitOn(s, sep)

\* strptime for the fields f of s
StrptimeFields(s, fmt, f) ==
    IF Len(f) # 3 \/ (fmt.sep = " " /\ (IsSpace(s[1]) \/ IsSpace(s[Len(s)])))
    THEN None
    ELSE MakeDate(YearField(f[fmt.year], fmt.yr), MonthField(f[fmt.month], fmt.mon),
                  DayField(f[fmt.day]))

\* datetime.strptime(s, fmt).date(); None stands for ValueError
Strptime(s, fmt) == StrptimeFields(s, fmt, FormatFields(s, fmt.sep))

\* the month-first reading of three fields
MonthFirst(f) ==
    IF Len(f) # 3 THEN None
    ELSE MakeDate(YearField(f[3], 4), MonthField(f[1], "num"), DayField(f[2]))

\* pd.to_datetime(s, dayfirst=True).date(), the last resort of _parse_date,
\* for the strings no format of the list accepts: a dashed or dotted numeric
\* date whose day-first reading is no calendar date is read month-first;
\* None stands for the exception the call raises on anything else.
PandasToDatetime(s) == OrElse(MonthFirst(SplitOn(s, "-")), MonthFirst(SplitOn(s, ".")))

\* the characters re.sub(r'[^\d/\-\.\s\w]', '', date_str) keeps
DateCharKept(c) == IsWordChar(c) \/ IsSpace(c) \/ c \in {"/", "-", "."}

RECURSIVE FirstFormat(_, _, _)
\* the result of the first of the formats, from the i-th on, that accepts s
FirstFormat(s, formats, i) ==
    IF i > Len(formats) THEN None
    ELSE OrElse(Strptime(s, formats[i]), FirstFormat(s, formats, i + 1))

\* _parse_date for the stripped string without the characters it removes
ParseCleanDate(s) ==
    IF s = <<>> THEN None
    ELSE OrElse(FirstFormat(s, DateFormats, 1), PandasToDatetime(s))

ParseDate(date_str) ==
    IF StrStrip(date_str) = <<>> THEN None
    ELSE ParseCleanDate(SelectSeq(StrStrip(date_str), DateCharKept))

(***************************************************************************)
(* Column role mappers                                                     *)
(***************************************************************************)
\* the roles, in the order of the keys of self.column_mappings
Roles == <<"date", "description", "debit", "credit", "amount", "balance">>

RoleSet == {Roles[i] : i \in 1..Len(Roles)}

\* self.column_mappings
ColumnMappings ==
    [ date |->   \* date, txn date, transaction date, value date, posted date, txn_date, dt
        << <<"d","a","t","e">>,
           <<"t","x","n"," ","d","a","t","e">>,
           <<"t","r","a","n","s","a","c","t","i","o","n"," ","d","a","t","e">>,
           <<"v","a","l","u","e"," ","d","a","t","e">>,
           <<"p","o","s","t","e","d"," ","d","a","t","e">>,
           <<"t","x","n","_","d","a","t","e">>,
           <<"d","t">> >>,
      description |->   \* description, narration, particulars, transaction details, remarks, reference, details
        << <<"d","e","s","c","r","i","p","t","i","o","n">>,
           <<"n","a","r","r","a","t","i","o","n">>,
           <<"p","a","r","t","i","c","u","l","a","r","s">>,
           <<"t","r","a","n","s","a","c","t","i","o","n"," ","d","e","t","a","i","l","s">>,
           <<"r","e","m","a","r","k","s">>,
           <<"r","e","f","e","r","e","n","c","e">>,
           <<"d","e","t","a","i","l","s">> >>,
      debit |->   \* debit, debit amount, withdrawal, dr, debit_amount, withdrawals
        << <<"d","e","b","i","t">>,
           <<"d","e","b","i","t"," ","a","m","o","u","n","t">>,
           <<"w","i","t","h","d","r","a","w","a","l">>,
           <<"d","r">>,
           <<"d","e","b","i","t","_","a","m","o","u","n","t">>,
           <<"w","i","t","h","d","r","a","w","a","l","s">> >>,
      credit |->   \* credit, credit amount, deposit, cr, credit_amount, deposits
        << <<"c","r","e","d","i","t">>,
           <<"c","r","e","d","i","t"," ","a","m","o","u","n","t">>,
           <<"d","e","p","o","s","i","t">>,
           <<"c","r">>,
           <<"c","r","e","d","i","t","_","a","m","o","u","n","t">>,
           <<"d","e","p","o","s","i","t","s">> >>,
      amount |->   \* amount, transaction amount, txn amount, amt
        << <<"a","m","o","u","n","t">>,
           <<"t","r","a","n","s","a","c","t","i","o","n"," ","a","m","o","u","n","t">>,
           <<"t","x","n"," ","a","m","o","u","n","t">>,
           <<"a","m","t">> >>,
      balance |->   \* balance, available balance, closing balance, running balance, balance_amount
        << <<"b","a","l","a","n","c","e">>,
           <<"a","v","a","i","l","a","b","l","e"," ","b","a","l","a","n","c","e">>,
           <<"c","l","o","s","i","n","g"," ","b","a","l","a","n","c","e">>,
           <<"r","u","n","n","i","n","g"," ","b","a","l","a","n","c","e">>,
           <<"b","a","l","a","n","c","e","_","a","m","o","u","n","t">> >> ]

\* the score of an exact match of a header with a keyword
ExactScore == 100

\* col.strip().lower().replace('_', ' ').replace('-', ' ')
NormalizeColumn(col) ==
    ReplaceChar(ReplaceChar(StrLower(StrStrip(col)), "_", " "), "-", " ")

\* a score that does not weigh a keyword found in the header by its length
PatternScoreUnweighted(pattern, col) ==
    IF pattern = col THEN ExactScore
    ELSE IF Contains(col, pattern) THEN 2
    ELSE IF Contains(pattern, col) THEN Len(col)
    ELSE 0

\* the score one keyword gives one normalized header (0: no branch is taken)
PatternScore(pattern, col) ==
    IF pattern = col THEN ExactScore
    ELSE IF Contains(col, pattern) THEN Len(pattern) * 2
    ELSE IF Contains(pattern, col) THEN Len(col)
    ELSE 0

\* no role is mapped
NoMapping ==
    [date |-> None, description |-> None, debit |-> None, credit |-> None,
     amount |-> None, balance |-> None]

\* the highest score the keywords give a normalized header
KeywordScore(keywords, col) ==
    SetMax({PatternScore(keywords[j], col) : j \in 1..Len(keywords)})

\* the highest score the keywords of a role give a normalized header
ColumnScore(field, col) == KeywordScore(ColumnMappings[field], col)

\* the first column, in list order, whose score is best_score
FirstBest(columns, scores, best_score) ==
    IF best_score = 0 THEN None
    ELSE Some(columns[SetMin({i \in 1..Len(columns) : scores[i] = best_score})])

\* the column of the highest positive score, given the score of each column
BestOf(columns, scores) ==
    FirstBest(columns, scores, SetMax({0} \cup {scores[i] : i \in 1..Len(columns)}))

\* the first of the columns whose index is in the set
FirstOf(columns, hits) == IF hits = {} THEN None ELSE Some(columns[SetMin(hits)])

\* a search that stops at the first column of a positive score
FirstMatch(field, columns) ==
    FirstOf(columns, {i \in 1..Len(columns) :
                         ColumnScore(field, NormalizeColumn(columns[i])) > 0})

\* The loops over the columns and the keywords with "if score > best_score":
\* the first column, in list order, that reaches the highest positive score.
BestMatch(field, columns) ==
    BestOf(columns,
           List([i \in 1..Len(columns) |->
                    ColumnScore(field, NormalizeColumn(columns[i]))]))

\* "look for any column with date-like content"
DateLikeName(col) ==
    /\ \E k \in 1..Len(col) : IsDigit(col[k])
    /\ \/ Contains(col, <<"d","a","t","e">>)
       \/ Contains(col, <<"d","t">>)
       \/ StartsWith(col, <<"d">>)

\* the two "more flexible" searches for a date column
FlexibleDate(columns) ==
    OrElse(FirstOf(columns, {i \in 1..Len(columns) :
                                DateLikeName(NormalizeColumn(columns[i]))}),
           FirstOf(columns, {i \in 1..Len(columns) :
                                AnyIn({<<"d","a","t","e">>, <<"t","i","m","e">>, <<"d","t">>, <<"d","a","y">>},
                                      StrLower(columns[i]))}))

\* dict.get(key) is truthy: the role is mapped to a non-empty value
Mapped(mapping, field) == ~IsNone(mapping[field]) /\ Val(mapping[field]) # <<>>

\* "if date column not found, try more flexible matching"
WithFlexibleDate(mapping, columns) ==
    IF Mapped(mapping, "date") THEN mapping
    ELSE [mapping EXCEPT !["date"] = FlexibleDate(columns)]

\* FileProcessor._map_columns: role -> Optional[header]
MapColumns(columns) ==
    WithFlexibleDate([date |-> BestMatch("date", columns),
                      description |-> BestMatch("description", columns),
                      debit |-> BestMatch("debit", columns),
                      credit |-> BestMatch("credit", columns),
                      amount |-> BestMatch("amount", columns),
                      balance |-> BestMatch("balance", columns)],
                     columns)

\* the if/elif chain of _map_table_columns for one header cell
TableHeaderRole(header_lower, column_mapping) ==
    IF AnyIn({<<"d","a","t","e">>, <<"d","t">>}, header_lower)
       /\ IsNone(column_mapping["date"]) THEN "date"
    ELSE IF AnyIn({<<"d","e","s","c","r","i","p","t","i","o","n">>, <<"p","a","r","t","i","c","u","l","a","r","s">>, <<"n","a","r","r","a","t","i","o","n">>, <<"d","e","t","a","i","l","s">>},
                  header_lower)
       /\ IsNone(column_mapping["description"]) THEN "description"
    ELSE IF AnyIn({<<"w","i","t","h","d","r","a","w","a","l">>, <<"d","e","b","i","t">>, <<"d","r">>}, header_lower)
       /\ IsNone(column_mapping["debit"]) THEN "debit"
    ELSE IF AnyIn({<<"d","e","p","o","s","i","t">>, <<"c","r","e","d","i","t">>, <<"c","r">>}, header_lower)
       /\ IsNone(column_mapping["credit"]) THEN "credit"
    ELSE IF AnyIn({<<"b","a","l","a","n","c","e">>}, header_lower)
       /\ IsNone(column_mapping["balance"]) THEN "balance"
    ELSE IF AnyIn({<<"a","m","o","u","n","t">>}, header_lower)
       /\ IsNone(column_mapping["amount"]) THEN "amount"
    ELSE "none"

\* column_mapping[role] = i, for a header cell that has a role
WithRole(column_mapping, role, i) ==
    IF role = "none" THEN column_mapping
    ELSE [column_mapping EXCEPT ![role] = Some(i)]

RECURSIVE MapTableHeaders(_, _, _)
\* the first loop of _map_table_columns, from the header cell of index i on
\* (indices are Python's, from 0)
MapTableHeaders(header_row, i, column_mapping) ==
    IF i >= Len(header_row) THEN column_mapping
    ELSE IF ~Truthy(header_row[i + 1])
        THEN MapTableHeaders(header_row, i + 1, column_mapping)
    ELSE MapTableHeaders(header_row, i + 1,
             WithRole(column_mapping,
                      TableHeaderRole(StrStrip(StrLower(header_row[i + 1])),
                                      column_mapping),
                      i))

\* column_mapping['amount'] = the first index of the set, if there is one
WithAmountAt(column_mapping, cand) ==
    IF cand = {} THEN column_mapping
    ELSE [column_mapping EXCEPT !["amount"] = Some(SetMin(cand))]

\* the second loop: with no debit, credit or amount column, the first column
\* after the second one that has a header and is not the balance column
InferAmountColumn(header_row, column_mapping) ==
    IF /\ IsNone(column_mapping["debit"])
       /\ IsNone(column_mapping["credit"])
       /\ IsNone(column_mapping["amount"])
    THEN WithAmountAt(column_mapping,
                      {i \in 2..(Len(header_row) - 1) :
                          /\ Truthy(header_row[i + 1])
                          /\ (IsNone(column_mapping["balance"])
                              \/ i # Val(column_mapping["balance"]))})
    ELSE column_mapping

\* FileProcessor._map_table_columns: role -> Optional[column index]
MapTableColumns(header_row) ==
    InferAmountColumn(header_row,
                      MapTableHeaders(header_row, 0, NoMapping))

(***************************************************************************)
(* The Transaction model and the validation gate                           *)
(***************************************************************************)
\* a Transaction model that validates nothing: amount and type are kept as
\* they are given
TransactionUnvalidated(transaction_date, description, amount, type, balance) ==
    Some([transaction_date |-> transaction_date,
          description |-> description,
          amount |-> amount,
          type |-> type,
          balance |-> balance])

\* Transaction(...) of models/transaction.py, a pydantic model: amount is a
\* required float and type a required str that validate_type lowers and
\* checks, so None for either raises ValidationError (None here).  The
\* fields stay Optional in the record so that a state can tell a missing
\* amount from a present one.
Transaction(transaction_date, description, amount, type, balance) ==
    IF IsNone(amount) \/ IsNone(type) THEN None
    ELSE IF Val(type) \notin {"debit", "credit"} THEN None
    ELSE Some([transaction_date |-> transaction_date,
               description |-> description,
               amount |-> amount,
               type |-> type,
               balance |-> balance])

\* a gate that rejects the negative amounts only ("amount < 0")
CreateTransactionLenient(parsed_date, description, amount, txn_type, balance) ==
    IF IsNone(parsed_date) THEN None
    ELSE IF ~IsNone(amount) /\ Val(amount) < 0 THEN None
    ELSE Transaction(Val(parsed_date), description, amount, txn_type, balance)

\* FileProcessor._create_transaction_safely: Some(transaction), or None for
\* a candidate that is skipped.  parsed_date, amount, txn_type and balance
\* are Optional; any exception inside is caught and gives None.
CreateTransactionSafely(parsed_date, description, amount, txn_type, balance) ==
    IF IsNone(parsed_date) THEN None
    ELSE IF ~IsNone(amount) /\ Val(amount) <= 0 THEN None
    ELSE Transaction(
            Val(parsed_date),
            IF StrStrip(description) = <<>>
                THEN <<"T","r","a","n","s","a","c","t","i","o","n">>
                ELSE StrStrip(description),
            amount,
            IF ~IsNone(txn_type) /\ Val(txn_type) \notin {"debit", "credit"}
                THEN Some("debit") ELSE txn_type,
            balance)

(***************************************************************************)
(* Dictionaries (csv rows): sequences of <<key, value>>, keys distinct     *)
(***************************************************************************)
DictHas(d, k) == \E i \in 1..Len(d) : d[i][1] = k

\* d.get(k, default)
DictGet(d, k, default) ==
    IF DictHas(d, k) THEN d[CHOOSE i \in 1..Len(d) : d[i][1] = k][2] ELSE default

\* d[k] = v: a new key goes last, an old key keeps its place
DictSet(d, k, v) ==
    IF DictHas(d, k)
    THEN List([i \in 1..Len(d) |-> IF d[i][1] = k THEN <<k, v>> ELSE d[i]])
    ELSE Append(d, <<k, v>>)

\* list(d.keys())
DictKeys(d) == List([i \in 1..Len(d) |-> d[i][1]])

(***************************************************************************)
(* Row parser of the csv and Excel pipelines                               *)
(***************************************************************************)
\* what a row parser did with one row or line: what it read (the row or
\* line and the column mapping), the candidate it built (the arguments of
\* _create_transaction_safely), whether the gate was called, and the
\* transaction that came out
Outcome(parser, gated, parsed_date, description, amount, txn_type, balance, txn) ==
    [parser |-> parser, source |-> <<>>, mapping |-> NoMapping, gated |-> gated,
     parsed_date |-> parsed_date, description |-> description, amount |-> amount,
     txn_type |-> txn_type, balance |-> balance, txn |-> txn]

\* the outcome of the row or line it came from
From(outcome, source, source_mapping) ==
    [outcome EXCEPT !.source = source, !.mapping = source_mapping]

\* the outcomes of the row or line they came from
AllFrom(outcomes_of, source) ==
    List([k \in 1..Len(outcomes_of) |-> From(outcomes_of[k], source, NoMapping)])

Skipped(parser, parsed_date) ==
    Outcome(parser, FALSE, parsed_date, <<>>, None, None, None, None)

Gated(parser, parsed_date, description, amount, txn_type, balance) ==
    Outcome(parser, TRUE, parsed_date, description, amount, txn_type, balance,
            CreateTransactionSafely(parsed_date, description, amount,
                                    txn_type, balance))

\* self._parse_amount(str(value)) if value else 0
CellAmount(value) == IF Truthy(value) THEN ParseAmount(PyStr(value)) ELSE 0

\* <<amount, 'debit'>> for a positive amount, else the other result
PositiveOr(amount, otherwise) ==
    IF amount > 0 THEN <<amount, "debit">> ELSE otherwise

RECURSIVE FirstPositiveValue(_, _)
\* "fallback: look for any numeric column": the first value, from the i-th
\* on, that parses to a positive amount, as a debit
FirstPositiveValue(row, i) ==
    IF i > Len(row) THEN <<0, "debit">>
    ELSE PositiveOr(CellAmount(row[i][2]), FirstPositiveValue(row, i + 1))

\* the pair rule with "!= 0" in place of "> 0"
PairAmountNonZero(debit_amount, credit_amount) ==
    IF debit_amount # 0 THEN <<debit_amount, "debit">>
    ELSE IF credit_amount # 0 THEN <<credit_amount, "credit">>
    ELSE <<0, "debit">>

\* "case 1: separate debit and credit columns"
PairAmount(debit_amount, credit_amount) ==
    IF debit_amount > 0 THEN <<debit_amount, "debit">>
    ELSE IF credit_amount > 0 THEN <<credit_amount, "credit">>
    ELSE <<0, "debit">>

\* "case 2: single amount column"
SingleAmount(amount) ==
    IF amount < 0 THEN <<0 - amount, "debit">> ELSE <<amount, "credit">>

\* FileProcessor._extract_amount_and_type, for a row given as a dict; a
\* missing key gives the default 0, whose str() parses to 0 like "None".
\* The result is <<amount, type>>.
ExtractAmountAndType(row, column_mapping) ==
    IF Mapped(column_mapping, "debit") /\ Mapped(column_mapping, "credit")
    THEN PairAmount(CellAmount(DictGet(row, Val(column_mapping["debit"]), NoneCell)),
                    CellAmount(DictGet(row, Val(column_mapping["credit"]), NoneCell)))
    ELSE IF Mapped(column_mapping, "amount")
    THEN SingleAmount(ParseAmount(PyStr(DictGet(row, Val(column_mapping["amount"]),
                                               NoneCell))))
    ELSE FirstPositiveValue(row, 1)

\* how many of self.date_formats _looks_like_date tries with strptime
LooksLikeDateFormats == 5

\* [/-]
DateSeparators == {"/", "-"}

\* _looks_like_date for the stripped value: re.search of four patterns, then
\* strptime with the first formats of the list
DateShaped(value) ==
    /\ value # <<>>
    /\ \/ \E i \in 1..Len(value) :     \* \d{1,2}[/-]\d{1,2}[/-]\d{2,4}
            /\ DigitAt(value, i) /\ CharAt(value, i + 1, DateSeparators)
            /\ DigitAt(value, i + 2)
            /\ \/ /\ CharAt(value, i + 3, DateSeparators)
                  /\ DigitAt(value, i + 4) /\ DigitAt(value, i + 5)
               \/ /\ DigitAt(value, i + 3) /\ CharAt(value, i + 4, DateSeparators)
                  /\ DigitAt(value, i + 5) /\ DigitAt(value, i + 6)
       \/ \E i \in 1..Len(value) :     \* \d{2,4}[/-]\d{1,2}[/-]\d{1,2}
            /\ DigitAt(value, i) /\ DigitAt(value, i + 1)
            /\ CharAt(value, i + 2, DateSeparators) /\ DigitAt(value, i + 3)
            /\ \/ CharAt(value, i + 4, DateSeparators) /\ DigitAt(value, i + 5)
               \/ /\ DigitAt(value, i + 4) /\ CharAt(value, i + 5, DateSeparators)
                  /\ DigitAt(value, i + 6)
       \/ \E i \in 1..Len(value) :     \* \d{1,2}\s+[A-Za-z]{3}\s+\d{2,4}
            /\ DigitAt(value, i)
            /\ \E j \in (i + 1)..Len(value) : \E k \in (j + 4)..Len(value) :
                  /\ SpacesAt(value, i + 1, j)
                  /\ LetterAt(value, j + 1) /\ LetterAt(value, j + 2)
                  /\ LetterAt(value, j + 3)
                  /\ SpacesAt(value, j + 4, k)
                  /\ DigitAt(value, k + 1) /\ DigitAt(value, k + 2)
       \/ \E i \in 1..Len(value) :     \* \d{1,2}-[A-Za-z]{3}-\d{2,4}
            /\ DigitAt(value, i) /\ CharAt(value, i + 1, {"-"})
            /\ LetterAt(value, i + 2) /\ LetterAt(value, i + 3)
            /\ LetterAt(value, i + 4) /\ CharAt(value, i + 5, {"-"})
            /\ DigitAt(value, i + 6) /\ DigitAt(value, i + 7)
       \/ \E f \in 1..LooksLikeDateFormats :
            ~IsNone(Strptime(value, DateFormats[f]))

\* FileProcessor._looks_like_date
LooksLikeDate(value) == DateShaped(StrStrip(value))

\* the cleaning loop of _extract_transactions_from_rows for one row: the
\* None key is dropped, the other keys are stripped and lowered
RECURSIVE CleanRow(_, _, _)
CleanRow(row, i, cleaned_row) ==
    IF i > Len(row) THEN cleaned_row
    ELSE IF row[i][1] = NoneCell THEN CleanRow(row, i + 1, cleaned_row)
    ELSE CleanRow(row, i + 1,
            DictSet(cleaned_row, StrLower(StrStrip(row[i][1])), row[i][2]))

\* cleaned_rows: the cleaned rows that are not empty
CleanRows(rows) ==
    SelectSeq(List([i \in 1..Len(rows) |-> CleanRow(rows[i], 1, <<>>)]),
              LAMBDA r : r # <<>>)

\* "try to infer from data": the first column whose value in the first row
\* looks like a date
InferDateFromFirstRow(cleaned_rows, column_names) ==
    FirstOf(column_names, {i \in 1..Len(column_names) :
                              LooksLikeDate(PyStr(cleaned_rows[1][i][2]))})

\* the number of leading rows inspected for a date-shaped value
DateInspectionRows == 5

\* the key of the first cell, row by row, among the cells of the set
FirstCellKey(cleaned_rows, hit) ==
    IF hit = {} THEN None
    ELSE Some(cleaned_rows[SetMin({p[1] : p \in hit})]
                          [SetMin({p[2] : p \in {q \in hit :
                                        q[1] = SetMin({r[1] : r \in hit})}})][1])

\* "the first column that might contain dates": the first truthy date-shaped
\* value, row by row over the first rows
InferDateFromRows(cleaned_rows) ==
    FirstCellKey(cleaned_rows,
        {p \in UNION {{<<r, i>> : i \in 1..Len(cleaned_rows[r])} :
                        r \in 1..Len(cleaned_rows) \cap 1..DateInspectionRows} :
            /\ Truthy(cleaned_rows[p[1]][p[2]][2])
            /\ LooksLikeDate(PyStr(cleaned_rows[p[1]][p[2]][2]))})

\* the mapping with the date column found by the inspection of the rows
WithInspectedDate(cleaned_rows, mapping) ==
    IF Mapped(mapping, "date") THEN mapping
    ELSE [mapping EXCEPT !["date"] = InferDateFromRows(cleaned_rows)]

\* the mapping with the date column inferred from the data if it has none
WithInferredDate(cleaned_rows, column_names, mapping) ==
    IF Mapped(mapping, "date") THEN mapping
    ELSE WithInspectedDate(cleaned_rows,
            [mapping EXCEPT
                !["date"] = InferDateFromFirstRow(cleaned_rows, column_names)])

\* the column mapping _extract_transactions_from_rows works with: the one
\* of _map_columns, with the date column inferred from the data if needed
RowsColumnMapping(cleaned_rows) ==
    WithInferredDate(cleaned_rows, DictKeys(cleaned_rows[1]),
                     MapColumns(DictKeys(cleaned_rows[1])))

\* the value of the column of a role, NoneCell without the column
RoleValue(row, column_mapping, field) ==
    IF Mapped(column_mapping, field)
    THEN DictGet(row, Val(column_mapping[field]), NoneCell)
    ELSE NoneCell

\* "try to find any text column for description": the first value of more
\* than three characters that is not the date column and not a number
FallbackDescription(row, column_mapping) ==
    ValOr(FirstOf([i \in 1..Len(row) |-> StrStrip(row[i][2])],
                  {i \in 1..Len(row) :
                    /\ Truthy(row[i][2])
                    /\ Len(StrStrip(row[i][2])) > 3
                    /\ ~(Mapped(column_mapping, "date")
                         /\ row[i][1] = Val(column_mapping["date"]))
                    /\ ~AllDigits(RemoveChars(row[i][2], {",", "."}))}),
          <<"T","r","a","n","s","a","c","t","i","o","n">>)

\* the description of a row: the stripped value of the description column,
\* or the fallback when it is empty
RowsDescription(row, column_mapping, desc_value) ==
    IF Truthy(desc_value) /\ StrStrip(desc_value) # <<>>
    THEN StrStrip(desc_value)
    ELSE FallbackDescription(row, column_mapping)

\* self._parse_amount(str(value)) if value else None
RowsBalance(balance_value) ==
    IF Truthy(balance_value) THEN Some(ParseAmount(PyStr(balance_value))) ELSE None

\* "skip zero-amount transactions", then _create_transaction_safely
RowCandidate(parser, parsed_date, description, at, balance) ==
    IF at[1] = 0 THEN Skipped(parser, parsed_date)
    ELSE Gated(parser, parsed_date, description, Some(at[1]), Some(at[2]), balance)

\* the row loop of _extract_transactions_from_rows after the date is parsed
RowsWithParsedDate(row, column_mapping, parsed_date) ==
    IF IsNone(parsed_date) THEN Skipped("rows", None)
    ELSE RowCandidate("rows", parsed_date,
                      RowsDescription(row, column_mapping,
                                      RoleValue(row, column_mapping, "description")),
                      ExtractAmountAndType(row, column_mapping),
                      RowsBalance(RoleValue(row, column_mapping, "balance")))

\* the row loop of _extract_transactions_from_rows for the value of the
\* date column
RowsWithDate(row, column_mapping, date_value) ==
    IF ~Truthy(date_value) \/ StrStrip(date_value) = <<>>
    THEN Skipped("rows", None)
    ELSE RowsWithParsedDate(row, column_mapping, ParseDate(PyStr(date_value)))

\* the body of the row loop of _extract_transactions_from_rows
RowsParseRow(row, column_mapping) ==
    RowsWithDate(row, column_mapping,
                 DictGet(row, Val(column_mapping["date"]), NoneCell))

\* the body of the row loop of _extract_transactions_from_dataframe; a NaN
\* cell is NoneCell and its str() is "nan"
DfStr(cell) == IF cell = NoneCell THEN <<"n","a","n">> ELSE cell

\* the description of a dataframe row, given the stripped str() of the cell
DfDescription(mapped_description) ==
    IF mapped_description = <<>> \/ mapped_description = <<"n","a","n">>
    THEN <<"T","r","a","n","s","a","c","t","i","o","n">>
    ELSE mapped_description

\* str(row.get(column, '')).strip() of the description column
DfDescriptionValue(row, column_mapping) ==
    IF Mapped(column_mapping, "description")
    THEN StrStrip(DfStr(DictGet(row, Val(column_mapping["description"]), <<>>)))
    ELSE <<>>

\* self._parse_amount(str(value)) if pd.notna(value) else None
DfBalance(balance_value) ==
    IF balance_value # NoneCell THEN Some(ParseAmount(balance_value)) ELSE None

\* the row loop of _extract_transactions_from_dataframe after the date is
\* parsed
DfWithParsedDate(row, column_mapping, parsed_date) ==
    IF IsNone(parsed_date) THEN Skipped("df", None)
    ELSE RowCandidate("df", parsed_date,
                      DfDescription(DfDescriptionValue(row, column_mapping)),
                      ExtractAmountAndType(row, column_mapping),
                      DfBalance(RoleValue(row, column_mapping, "balance")))

\* the row loop of _extract_transactions_from_dataframe for the value of
\* the date column
DfWithDate(row, column_mapping, date_value) ==
    IF \A i \in 1..Len(row) : row[i][2] = NoneCell THEN Skipped("df", None)
    ELSE IF date_value = NoneCell THEN Skipped("df", None)
    ELSE DfWithParsedDate(row, column_mapping, ParseDate(date_value))

DfParseRow(row, column_mapping) ==
    DfWithDate(row, column_mapping,
               DictGet(row, Val(column_mapping["date"]), NoneCell))

(***************************************************************************)
(* PDF tables                                                              *)
(***************************************************************************)
\* the cell of index i (from 0) of a row
Cell(row, i) == row[i + 1]

\* column_mapping.get(field, default) for a mapping to column indices
IndexOr(column_mapping, field, default) ==
    IF IsNone(column_mapping[field]) THEN default ELSE Val(column_mapping[field])

\* str(row[idx]) if idx < len(row) and row[idx] else ""
CellOrEmpty(row, idx) ==
    IF idx < Len(row) /\ Truthy(Cell(row, idx)) THEN Cell(row, idx) ELSE <<>>

\* str(row[desc_idx]) of _extract_amount_type_balance_from_row, or ""
RowDescription(row, column_mapping) ==
    CellOrEmpty(row, IndexOr(column_mapping, "description", 1))

\* the words that make a positive amount a credit in the table row parser
TableCreditWords ==
    {<<"d","e","p","o","s","i","t">>, <<"c","r","e","d","i","t">>, <<"s","a","l","a","r","y">>, <<"t","r","a","n","s","f","e","r"," ","i","n">>, <<"c","m","s">>}

\* "determine type from description"
TableTypeFromDescription(row, column_mapping) ==
    IF AnyIn(TableCreditWords, StrLower(RowDescription(row, column_mapping)))
    THEN "credit" ELSE "debit"

\* self._parse_amount(str(cell)) if cell else 0, for each cell of the row
RowAmounts(row) ==
    List([i \in 1..Len(row) |-> IF Truthy(row[i]) THEN ParseAmount(row[i]) ELSE 0])

\* the parsed amount of the cell of index idx, 0 for an index past the row
AmountAt(amounts, idx) == IF idx < Len(amounts) THEN amounts[idx + 1] ELSE 0

\* the balance of the mapped balance column
MappedBalance(balance_val, balance_idx) ==
    <<IF balance_val > 0 THEN Some(balance_val) ELSE None, Some(balance_idx)>>

\* "try to find balance as the last numeric column", given the indices of
\* the cells with a positive amount
LastNumeric(amounts, column_mapping, hit) ==
    IF hit = {} THEN <<None, column_mapping["balance"]>>
    ELSE <<Some(amounts[SetMax(hit) + 1]), Some(SetMax(hit))>>

\* the balance part of _extract_amount_type_balance_from_row:
\* <<balance, balance_idx>>, both Optional
RowBalance(amounts, column_mapping) ==
    IF ~IsNone(column_mapping["balance"])
       /\ Val(column_mapping["balance"]) < Len(amounts)
    THEN MappedBalance(AmountAt(amounts, Val(column_mapping["balance"])),
                       Val(column_mapping["balance"]))
    ELSE LastNumeric(amounts, column_mapping,
                     {i \in 0..(Len(amounts) - 1) : amounts[i + 1] > 0})

\* "separate debit/credit columns"
TablePairAmount(debit_amount, credit_amount) ==
    IF debit_amount > 0 THEN <<Some(debit_amount), Some("debit")>>
    ELSE IF credit_amount > 0 THEN <<Some(credit_amount), Some("credit")>>
    ELSE <<Some(0), Some("debit")>>

\* "single amount column", for a cell that is there and not empty
TableSingleAmount(row, column_mapping, amount_val) ==
    IF amount_val = 0 THEN <<Some(0), Some("debit")>>
    ELSE IF amount_val < 0 THEN <<Some(0 - amount_val), Some("debit")>>
    ELSE <<Some(amount_val), Some(TableTypeFromDescription(row, column_mapping))>>

\* "take the first non-balance numeric value as amount"
FirstNumeric(row, column_mapping, amounts, numeric_values) ==
    IF numeric_values = {} THEN <<Some(0), Some("debit")>>
    ELSE <<Some(amounts[SetMin(numeric_values) + 1]),
           Some(TableTypeFromDescription(row, column_mapping))>>

\* the amount part: <<amount, txn_type>>, both Optional, before the final
\* "amount if amount and amount > 0 else None"
RowAmount(row, column_mapping, amounts, balance, balance_idx) ==
    IF ~IsNone(column_mapping["debit"]) /\ ~IsNone(column_mapping["credit"])
    THEN TablePairAmount(AmountAt(amounts, Val(column_mapping["debit"])),
                         AmountAt(amounts, Val(column_mapping["credit"])))
    ELSE IF ~IsNone(column_mapping["amount"])
    THEN IF CellOrEmpty(row, Val(column_mapping["amount"])) # <<>>
         THEN TableSingleAmount(row, column_mapping,
                                AmountAt(amounts, Val(column_mapping["amount"])))
         ELSE <<None, None>>
    ELSE FirstNumeric(row, column_mapping, amounts,
             {i \in 0..(Len(row) - 1) :
                /\ (IsNone(balance_idx) \/ i # Val(balance_idx))
                /\ amounts[i + 1] > 0
                /\ (IsNone(balance)
                    \/ amounts[i + 1] - Val(balance) > 1
                    \/ Val(balance) - amounts[i + 1] > 1)})

\* the end of _extract_amount_type_balance_from_row: the B/F special case
\* and "amount if amount and amount > 0 else None"
AmountTypeBalance(at, balance, description) ==
    IF /\ (IsNone(at[1]) \/ Val(at[1]) = 0)
       /\ ~IsNone(balance)
       /\ (Contains(description, <<"B","/","F">>) \/ Contains(description, <<"B","R","O","U","G","H","T"," ","F","O","R","W","A","R","D">>))
    THEN <<None, None, balance>>
    ELSE <<IF ~IsNone(at[1]) /\ Val(at[1]) > 0 THEN at[1] ELSE None, at[2], balance>>

\* _extract_amount_type_balance_from_row once the balance is extracted
WithBalance(row, column_mapping, amounts, bal) ==
    AmountTypeBalance(RowAmount(row, column_mapping, amounts, bal[1], bal[2]),
                      bal[1], StrUpper(RowDescription(row, column_mapping)))

\* _extract_amount_type_balance_from_row for the parsed cells of the row
WithAmounts(row, column_mapping, amounts) ==
    WithBalance(row, column_mapping, amounts, RowBalance(amounts, column_mapping))

\* FileProcessor._extract_amount_type_balance_from_row:
\* <<amount, txn_type, balance>>, all Optional
ExtractAmountTypeBalanceFromRow(row, column_mapping) ==
    WithAmounts(row, column_mapping, RowAmounts(row))

\* the end of _parse_table_row: the skip of a row without description and
\* amount, the default description and _create_transaction_safely
TableGate(parsed_date, description, amount, txn_type, balance) ==
    IF description = <<>> /\ ~IsNone(amount) /\ Val(amount) = 0
    THEN Skipped("table", parsed_date)
    ELSE Gated("table", parsed_date,
               IF description = <<>> THEN <<"T","r","a","n","s","a","c","t","i","o","n">> ELSE description,
               amount, txn_type, balance)

\* "special handling for B/F (brought forward) entries"
TableCandidate(parsed_date, description, atb) ==
    IF Contains(StrUpper(description), <<"B","/","F">>) /\ (IsNone(atb[1]) \/ Val(atb[1]) = 0)
    THEN TableGate(parsed_date, description, None, None, atb[3])
    ELSE TableGate(parsed_date, description, atb[1], atb[2], atb[3])

\* _parse_table_row after the date is parsed
TableRowWithDate(row, column_mapping, parsed_date) ==
    IF IsNone(parsed_date) THEN Skipped("table", None)
    ELSE TableCandidate(parsed_date,
            CollapseSpaces(StrStrip(
                CellOrEmpty(row, IndexOr(column_mapping, "description", 1)))),
            ExtractAmountTypeBalanceFromRow(row, column_mapping))

\* FileProcessor._parse_table_row
ParseTableRow(row, column_mapping) ==
    IF IndexOr(column_mapping, "date", 0) >= Len(row) THEN Skipped("table", None)
    ELSE TableRowWithDate(row, column_mapping,
            ParseDate(StrStrip(CellOrEmpty(row, IndexOr(column_mapping, "date", 0)))))

\* the header keywords _analyze_table_structure counts in a row
HeaderKeywords ==
    {<<"d","a","t","e">>, <<"d","e","s","c","r","i","p","t","i","o","n">>, <<"p","a","r","t","i","c","u","l","a","r","s">>, <<"d","e","b","i","t">>, <<"c","r","e","d","i","t">>,
     <<"w","i","t","h","d","r","a","w","a","l">>, <<"d","e","p","o","s","i","t">>, <<"b","a","l","a","n","c","e">>, <<"d","e","p","o","s","i","t","s">>, <<"w","i","t","h","d","r","a","w","a","l","s">>}

\* the number of leading rows searched for the header row
HeaderSearchRows == 3

\* ' '.join(str(cell).lower() if cell else '' for cell in row)
RowText(row) ==
    JoinWith(List([i \in 1..Len(row) |->
                      IF Truthy(row[i]) THEN StrLower(row[i]) ELSE <<>>]),
             <<" ">>)

\* the number of header keywords in the text of a row
KeywordCount(row_text) ==
    Cardinality({k \in HeaderKeywords : Contains(row_text, k)})

\* header_score of one row
HeaderScore(row) == KeywordCount(RowText(row))

\* the header row and its column mapping
HeaderInfo(table, best_idx) ==
    IF table[best_idx + 1] = <<>> THEN None
    ELSE Some([header_row_idx |-> best_idx,
               column_mapping |-> MapTableColumns(table[best_idx + 1])])

\* max(header_candidates, key=score): the first candidate of the highest
\* score; the first row of the table if that score is 0
BestHeader(table, cands, scores, best_score) ==
    IF cands = {} THEN None
    ELSE HeaderInfo(table, IF best_score = 0 THEN 0
                           ELSE SetMin({i \in cands : scores[i + 1] = best_score}))

\* _analyze_table_structure for the header scores of the leading rows
WithHeaderScores(table, cands, scores) ==
    BestHeader(table, cands, scores, SetMax({0} \cup {scores[i + 1] : i \in cands}))

\* FileProcessor._analyze_table_structure: None, or
\* Some([header_row_idx, column_mapping])
AnalyzeTableStructure(table) ==
    WithHeaderScores(table,
        {i \in 0..(Len(table) - 1) : i < HeaderSearchRows /\ table[i + 1] # <<>>},
        List([i \in 1..Len(table) |->
                IF i <= HeaderSearchRows THEN HeaderScore(table[i]) ELSE 0]))

RECURSIVE TableRows(_, _, _)
\* the row loop of _extract_transactions_from_table, from row index i on:
\* the outcomes of the rows that reach _parse_table_row, in order
TableRows(table, i, column_mapping) ==
    IF i >= Len(table) THEN <<>>
    ELSE IF Len(table[i + 1]) < 2
            \/ \A k \in 1..Len(table[i + 1]) :
                  ~Truthy(table[i + 1][k]) \/ StrStrip(table[i + 1][k]) = <<>>
        THEN TableRows(table, i + 1, column_mapping)
    ELSE <<From(ParseTableRow(table[i + 1], column_mapping), table[i + 1],
                column_mapping)>>
            \o TableRows(table, i + 1, column_mapping)

\* the rows after the header row, if the table has one
RowsAfterHeader(table, header_info) ==
    IF IsNone(header_info) THEN <<>>
    ELSE TableRows(table, Val(header_info).header_row_idx + 1,
                   Val(header_info).column_mapping)

\* FileProcessor._extract_transactions_from_table, as the outcomes of its rows
TableOutcomes(table) ==
    IF Len(table) < 2 THEN <<>>
    ELSE RowsAfterHeader(table, AnalyzeTableStructure(table))

\* the transactions of a sequence of outcomes
RECURSIVE Transactions(_)
Transactions(outcomes) ==
    IF outcomes = <<>> THEN <<>>
    ELSE outcomes[1].txn \o Transactions(Tail(outcomes))

(***************************************************************************)
(* Regular expressions of the PDF text extractors.  A match is computed    *)
(* as re does: the leftmost start, then the alternatives of each           *)
(* quantifier in its order of preference (greedy: longest first, lazy:     *)
(* shortest first).  The texts of the model separate words by one blank,   *)
(* so \s+ between two groups is the whole run of white space.              *)
(***************************************************************************)
\* the number of groups ",ddd" that follow position e
RECURSIVE CommaGroups(_, _)
CommaGroups(s, e) ==
    IF CharAt(s, e + 1, {","}) /\ DigitAt(s, e + 2) /\ DigitAt(s, e + 3)
       /\ DigitAt(s, e + 4)
    THEN 1 + CommaGroups(s, e + 4) ELSE 0

\* ".dd" follows position e
DecimalsAt(s, e) == CharAt(s, e + 1, {"."}) /\ DigitAt(s, e + 2) /\ DigitAt(s, e + 3)

\* a number that ends at e, with ".dd" first and then without
EndWithDecimals(s, e) == IF DecimalsAt(s, e) THEN <<e + 3, e>> ELSE <<e>>

RECURSIVE GroupEnds(_, _, _, _)
\* the ends of the numbers whose leading digits end at e0, with gmax groups
\* ",ddd" (k = 1) down to none (k = gmax + 1)
GroupEnds(s, e0, gmax, k) ==
    IF k > gmax + 1 THEN <<>>
    ELSE EndWithDecimals(s, e0 + 4 * (gmax + 1 - k)) \o GroupEnds(s, e0, gmax, k + 1)

\* NumEnds for d leading digits
LeadingDigits(s, p, d) ==
    IF d < 1 THEN <<>>
    ELSE GroupEnds(s, p + d - 1, CommaGroups(s, p + d - 1), 1)
            \o List([k \in 1..(d - 1) |-> p + d - 1 - k])

\* The ends of the matches of \d{1,3}(?:,\d{3})*(?:\.\d{2})? that start at p,
\* in re's order of preference: all the leading digits (at most three) with
\* g groups ",ddd", g from the most down, each with ".dd" first and then
\* without; then fewer leading digits (which nothing can follow).
NumEnds(s, p) ==
    LeadingDigits(s, p, IF DigitRunEnd(s, p) - p + 1 > 3 THEN 3
                        ELSE DigitRunEnd(s, p) - p + 1)

\* the first element of a sequence of ends that is in the set ok; 0: none
FirstEnd(ends, ok) ==
    IF \A k \in 1..Len(ends) : ends[k] \notin ok THEN 0
    ELSE ends[SetMin({k \in 1..Len(ends) : ends[k] \in ok})]

\* the positions of s that white space follows
BeforeSpace(s) == {e \in 0..Len(s) : CharAt(s, e + 1, SpaceChars)}

\* the positions of s at which a word ends or starts (\b after position e)
Boundary(s) == {e \in 0..Len(s) : WordAt(s, e) # WordAt(s, e + 1)}

\* the lengths <<day, month, year>> of \d{1,2}.\d{1,2}.\d{ylens}, in re's
\* order of preference
DateCombos(ylens) ==
    List([k \in 1..(4 * Len(ylens)) |->
            <<IF (k - 1) \div (2 * Len(ylens)) = 0 THEN 2 ELSE 1,
              IF ((k - 1) \div Len(ylens)) % 2 = 0 THEN 2 ELSE 1,
              ylens[((k - 1) % Len(ylens)) + 1]>>])

\* the date of lengths c stands at p
DateComboAt(s, p, seps, c) ==
    /\ \A i \in p..(p + c[1] - 1) : DigitAt(s, i)
    /\ CharAt(s, p + c[1], seps)
    /\ \A i \in (p + c[1] + 1)..(p + c[1] + c[2]) : DigitAt(s, i)
    /\ CharAt(s, p + c[1] + c[2] + 1, seps)
    /\ \A i \in (p + c[1] + c[2] + 2)..(p + c[1] + c[2] + 1 + c[3]) : DigitAt(s, i)

\* the ends of the dates of the given lengths that start at p
ComboEnds(p, good) ==
    List([k \in 1..Len(good) |-> p + good[k][1] + good[k][2] + 1 + good[k][3]])

\* The ends of the matches of \d{1,2}[seps]\d{1,2}[seps]\d{ylens} that start
\* at p, in re's order of preference; ylens lists the year lengths, longest
\* first.
DateEnds(s, p, seps, ylens) ==
    ComboEnds(p, SelectSeq(DateCombos(ylens), LAMBDA c : DateComboAt(s, p, seps, c)))

\* the end of the run of white space that starts at i (i - 1: none)
RECURSIVE SpaceRunEnd(_, _)
SpaceRunEnd(s, i) ==
    IF CharAt(s, i, SpaceChars) THEN SpaceRunEnd(s, i + 1) ELSE i - 1

\* <<start, end>> of a number after white space, or <<0, 0>>
NumSpan(spaces, start, end) ==
    IF spaces /\ end > 0 THEN <<start, end>> ELSE <<0, 0>>

\* SpaceNum for the end x of the white space
NumAfter(s, e, x, ok) == NumSpan(x > e, x + 1, FirstEnd(NumEnds(s, x + 1), ok))

\* \s+(NUM): from position e, white space and then a number that ends in the
\* set ok; <<start, end>> of the number, or <<0, 0>>
SpaceNum(s, e, ok) == NumAfter(s, e, SpaceRunEnd(s, e + 1), ok)

RECURSIVE Nums(_, _, _)
RECURSIVE NumsFrom(_, _, _)
\* (\s+(NUM)){count} from position e, white space following every number
\* but the last: Some(the spans of the numbers), or None
Nums(s, e, count) ==
    IF count = 0 THEN Some(<<>>)
    ELSE NumsFrom(s, count,
                  SpaceNum(s, e, IF count = 1 THEN 0..Len(s) ELSE BeforeSpace(s)))

\* a list of spans with one more in front; None if the rest is missing
Prepend(n, rest) == IF IsNone(rest) THEN None ELSE Some(<<n>> \o Val(rest))

\* the number n and count - 1 numbers after it
NumsFrom(s, count, n) ==
    IF n[2] = 0 THEN None ELSE Prepend(n, Nums(s, n[2], count - 1))

\* the strings of a list of spans
Spans(s, spans) ==
    List([k \in 1..Len(spans) |-> SubSeq(s, spans[k][1], spans[k][2])])

\* the groups of a match: the date s[p..e], the description s[w+1..de] for
\* the least end de of the set, and the numbers after it
LazyGroups(s, p, e, w, des, count) ==
    IF des = {} THEN <<>>
    ELSE <<SubSeq(s, p, e), SubSeq(s, w + 1, SetMin(des))>>
            \o Spans(s, Val(Nums(s, SetMin(des), count)))

\* the match at p of a date that ends at e and the white space to w, then
\* a lazy description of at least least characters and count numbers
DescriptionAndNums(s, p, e, w, least, count) ==
    IF e = 0 THEN <<>>
    ELSE LazyGroups(s, p, e, w,
                    {de \in (w + least)..Len(s) : ~IsNone(Nums(s, de, count))},
                    count)

\* the match at p whose date ends at e
AfterDate(s, p, e, least, count) ==
    DescriptionAndNums(s, p, e, SpaceRunEnd(s, e + 1), least, count)

\* the groups of the match of (DATE)\s+(.{least,}?)(\s+(NUM)){count} at p
MatchAtStart(s, p, seps, ylens, least, count) ==
    AfterDate(s, p, FirstEnd(DateEnds(s, p, seps, ylens), BeforeSpace(s)),
              least, count)

\* re.search: the first of the matches at the positions of s; <<>>: none
Leftmost(matches) ==
    IF \A p \in 1..Len(matches) : matches[p] = <<>> THEN <<>>
    ELSE matches[SetMin({p \in 1..Len(matches) : matches[p] # <<>>})]

\* re.search of (DATE)\s+(.{least,}?)(\s+(NUM)){count}: the groups, as
\* strings; <<>>: no match
SearchPattern(s, seps, ylens, least, count) ==
    Leftmost(List([p \in 1..Len(s) |->
                      MatchAtStart(s, p, seps, ylens, least, count)]))

\* Pattern 1: (\d{1,2}-\d{1,2}-\d{4})\s+(.+?)\s+(NUM)\s+(NUM)\s+(NUM)
MatchPattern1(s) == SearchPattern(s, {"-"}, <<4>>, 1, 3)

\* the match of pattern 2 at p whose date ends at e, with B/F after the
\* white space to w and the number n
BroughtForward(s, p, e, w, n) ==
    IF e > 0 /\ MatchAt(<<"B","/","F">>, s, w + 1) /\ n[2] > 0
    THEN <<SubSeq(s, p, e), <<"B","/","F">>, SubSeq(s, n[1], n[2])>>
    ELSE <<>>

\* the match of pattern 2 at p whose date ends at e
BroughtForwardAfter(s, p, e) ==
    BroughtForward(s, p, e, SpaceRunEnd(s, e + 1),
                   SpaceNum(s, SpaceRunEnd(s, e + 1) + 3, 0..Len(s)))

\* Pattern 2: (\d{1,2}-\d{1,2}-\d{4})\s+(B/F)\s+(NUM)
MatchPattern2(s) ==
    Leftmost(List([p \in 1..Len(s) |->
                      BroughtForwardAfter(s, p,
                          FirstEnd(DateEnds(s, p, {"-"}, <<4>>), BeforeSpace(s)))]))

\* the least length of the description of pattern 3
MinDescription == 10

\* Pattern 3: (\d{1,2}[-/]\d{1,2}[-/]\d{2,4})\s+(.{10,}?)\s+(NUM)\s+(NUM)
MatchPattern3(s) == SearchPattern(s, {"-", "/"}, <<4, 3, 2>>, MinDescription, 2)

(***************************************************************************)
(* PDF text extraction                                                     *)
(***************************************************************************)
\* re.match(r'^\d{1,2}-\d{1,2}-\d{4}', line)
StartsWithDate(line) == DateEnds(line, 1, {"-"}, <<4>>) # <<>>

\* processed_lines.append(' '.join(current_transaction)), if there is one
Flush(current_transaction) ==
    IF current_transaction = <<>> THEN <<>>
    ELSE <<JoinWith(current_transaction, <<" ">>)>>

RECURSIVE PreprocessLines(_, _, _)
RECURSIVE PreprocessLine(_, _, _, _)
\* the loop of _preprocess_multiline_transactions from line i on
PreprocessLines(lines, i, current_transaction) ==
    IF i > Len(lines) THEN Flush(current_transaction)
    ELSE PreprocessLine(lines, i, current_transaction, StrStrip(lines[i]))

\* a loop body for which a blank line does not end the transaction
PreprocessLineOverBlanks(lines, i, current_transaction, line) ==
    IF line = <<>>
        THEN PreprocessLines(lines, i + 1, current_transaction)
    ELSE IF StartsWithDate(line)
        THEN Flush(current_transaction) \o PreprocessLines(lines, i + 1, <<line>>)
    ELSE IF current_transaction # <<>>
        THEN PreprocessLines(lines, i + 1, Append(current_transaction, line))
    ELSE <<line>> \o PreprocessLines(lines, i + 1, <<>>)

\* the body of the loop for the stripped line
PreprocessLine(lines, i, current_transaction, line) ==
    IF line = <<>>
        THEN Flush(current_transaction) \o PreprocessLines(lines, i + 1, <<>>)
    ELSE IF StartsWithDate(line)
        THEN Flush(current_transaction) \o PreprocessLines(lines, i + 1, <<line>>)
    ELSE IF current_transaction # <<>>
        THEN PreprocessLines(lines, i + 1, Append(current_transaction, line))
    ELSE <<line>> \o PreprocessLines(lines, i + 1, <<>>)

\* FileProcessor._preprocess_multiline_transactions
PreprocessMultilineTransactions(text) ==
    JoinWith(PreprocessLines(SplitOn(text, "\n"), 1, <<>>), <<"\n">>)

\* the words that make _extract_transactions_from_text_enhanced skip a line
TextHeaders ==
    {<<"D","A","T","E">>, <<"M","O","D","E">>, <<"P","A","R","T","I","C","U","L","A","R","S">>, <<"W","I","T","H","D","R","A","W","A","L","S">>, <<"D","E","P","O","S","I","T","S">>,
     <<"B","A","L","A","N","C","E">>, <<"P","A","G","E">>, <<"S","T","A","T","E","M","E","N","T">>, <<"T","O","T","A","L",":">>}

\* the words that make the amount of pattern 3 a credit
TextCreditWords ==
    {<<"C","M","S">>, <<"D","E","P","O","S","I","T">>, <<"C","R","E","D","I","T">>, <<"S","A","L","A","R","Y">>, <<"T","R","A","N","S","F","E","R"," ","I","N">>}

\* "clean description" of the line loop
TextDescription(description) ==
    IF Len(description) > 3 THEN CollapseSpaces(description) ELSE <<"T","r","a","n","s","a","c","t","i","o","n">>

\* the shortest line the line loop looks at
MinLineLength == 10

\* "full format with deposits/withdrawals", for the parsed groups
FullFormat(parsed_date, description, deposits, withdrawals, balance) ==
    IF IsNone(parsed_date) \/ (deposits <= 0 /\ withdrawals <= 0) THEN <<>>
    ELSE <<Gated("text", parsed_date, TextDescription(description),
                 Some(IF deposits > 0 THEN deposits ELSE withdrawals),
                 Some(IF deposits > 0 THEN "credit" ELSE "debit"),
                 Some(balance))>>

\* the outcome of a match of pattern 1; <<>>: the next pattern is tried
Pattern1Outcome(groups) ==
    IF groups = <<>> THEN <<>>
    ELSE FullFormat(ParseDate(groups[1]), StrStrip(groups[2]),
                    ParseAmount(groups[3]), ParseAmount(groups[4]),
                    ParseAmount(groups[5]))

\* "B/F entry", for the parsed groups
BroughtForwardEntry(parsed_date, balance) ==
    IF IsNone(parsed_date) THEN <<>>
    ELSE <<Gated("text", parsed_date, TextDescription(<<"B","/","F">>), None, None,
                 Some(balance))>>

\* the outcome of a match of pattern 2
Pattern2Outcome(groups) ==
    IF groups = <<>> THEN <<>>
    ELSE BroughtForwardEntry(ParseDate(groups[1]), ParseAmount(groups[3]))

\* "amount and balance format", for the parsed groups
AmountAndBalance(parsed_date, description, amount, balance) ==
    IF IsNone(parsed_date) THEN <<>>
    ELSE <<Gated("text", parsed_date, TextDescription(description),
                 Some(amount),
                 Some(IF AnyIn(TextCreditWords, StrUpper(description))
                      THEN "credit" ELSE "debit"),
                 Some(balance))>>

\* the outcome of a match of pattern 3
Pattern3Outcome(groups) ==
    IF groups = <<>> THEN <<>>
    ELSE AmountAndBalance(ParseDate(groups[1]), StrStrip(groups[2]),
                          ParseAmount(groups[3]), ParseAmount(groups[4]))

\* "try each pattern": the outcome of the first pattern that has one
FirstOutcome(first, second, third) ==
    IF first # <<>> THEN first ELSE IF second # <<>> THEN second ELSE third

\* the line loop for the stripped line
ParseStrippedLine(line) ==
    IF Len(line) < MinLineLength THEN <<>>
    ELSE IF AnyIn(TextHeaders, StrUpper(line)) THEN <<>>
    ELSE FirstOutcome(Pattern1Outcome(MatchPattern1(line)),
                      Pattern2Outcome(MatchPattern2(line)),
                      Pattern3Outcome(MatchPattern3(line)))

\* The body of the line loop of _extract_transactions_from_text_enhanced: the
\* outcome of the first pattern that reaches the gate, if any.  A pattern
\* whose date does not parse, and pattern 1 without a positive deposit or
\* withdrawal, pass the line on to the next pattern.
TextParseLine(raw_line) == ParseStrippedLine(StrStrip(raw_line))

RECURSIVE TextLines(_, _)
TextLines(lines, i) ==
    IF i > Len(lines) THEN <<>>
    ELSE AllFrom(TextParseLine(lines[i]), lines[i]) \o TextLines(lines, i + 1)

RECURSIVE DateMatches(_, _)
RECURSIVE DateMatchFrom(_, _)
\* re.finditer(r'(\d{1,2}-\d{1,2}-\d{4})', text): the starts of the matches
\* that start at p or later
DateMatches(text, p) ==
    IF \A q \in p..Len(text) : DateEnds(text, q, {"-"}, <<4>>) = <<>> THEN <<>>
    ELSE DateMatchFrom(text,
            SetMin({q \in p..Len(text) : DateEnds(text, q, {"-"}, <<4>>) # <<>>}))

\* the match at p and the matches after it
DateMatchFrom(text, p) ==
    <<p>> \o DateMatches(text, DateEnds(text, p, {"-"}, <<4>>)[1] + 1)

\* the end of the match of \b(NUM)\b that starts at p (0: none), given
\* the word boundaries of s
NumEndAt(s, boundary, p) ==
    IF (p - 1) \in boundary THEN FirstEnd(NumEnds(s, p), boundary) ELSE 0

RECURSIVE NumMatchesFrom(_, _, _)
RECURSIVE NumMatchAt(_, _, _)
\* the matches of \b(NUM)\b in s that start at p or later
NumMatchesFrom(s, boundary, p) ==
    IF \A q \in p..Len(s) : NumEndAt(s, boundary, q) = 0 THEN <<>>
    ELSE NumMatchAt(s, boundary,
                    SetMin({q \in p..Len(s) : NumEndAt(s, boundary, q) > 0}))

\* the match at p and the matches after it
NumMatchAt(s, boundary, p) ==
    <<<<p, NumEndAt(s, boundary, p)>>>>
        \o NumMatchesFrom(s, boundary, NumEndAt(s, boundary, p) + 1)

\* re.finditer(r'\b(NUM)\b', s): <<start, end>> of the matches
NumMatches(s) == NumMatchesFrom(s, Boundary(s), 1)

\* s without the sub that stands at i (0: nowhere)
CutAt(s, sub, i) ==
    IF i = 0 THEN s ELSE SubSeq(s, 1, i - 1) \o SubSeq(s, i + Len(sub), Len(s))

\* s.replace(sub, '', 1)
ReplaceFirst(s, sub) ==
    CutAt(s, sub,
          IF sub = <<>> \/ ~Contains(s, sub) THEN 0
          ELSE SetMin({i \in 1..(Len(s) - Len(sub) + 1) : MatchAt(sub, s, i)}))

\* list.remove(x): the first occurrence of x removed
RemoveFirst(values, x) ==
    IF IndexOf(values, x) = 0 THEN values
    ELSE SubSeq(values, 1, IndexOf(values, x) - 1)
            \o SubSeq(values, IndexOf(values, x) + 1, Len(values))

\* the words that make the amount of a block a credit
BlockCreditWords == {<<"C","M","S">>, <<"D","E","P","O","S","I","T">>, <<"C","R","E","D","I","T">>, <<"S","A","L","A","R","Y">>}

\* "extract description": every matched number removed once, in turn
RECURSIVE BlockDescription(_, _, _, _)
BlockDescription(description, full_text, matches, k) ==
    IF k > Len(matches) THEN description
    ELSE BlockDescription(
            ReplaceFirst(description, SubSeq(full_text, matches[k][1], matches[k][2])),
            full_text, matches, k + 1)

\* description.strip(), or "Transaction" for fewer than three characters
BlockDescriptionOr(stripped) ==
    IF Len(stripped) < 3 THEN <<"T","r","a","n","s","a","c","t","i","o","n">> ELSE stripped

\* the candidate of a regular block
BlockCandidate(parsed_date, description, amount, balance) ==
    <<Gated("block", parsed_date, description, Some(amount),
            Some(IF AnyIn(BlockCreditWords, StrUpper(description))
                 THEN "credit" ELSE "debit"),
            Some(balance))>>

\* the last value is taken for the balance and the first for the amount
BlockAmountsLastIsBalance(parsed_date, description, numeric_values, balance) ==
    BlockCandidate(parsed_date, description, numeric_values[1],
                   numeric_values[Len(numeric_values)])

\* "the last amount is usually the balance": the largest value is taken for
\* the balance and the first of the others for the amount
BlockAmounts(parsed_date, description, numeric_values, balance) ==
    BlockCandidate(parsed_date, description,
                   RemoveFirst(numeric_values, balance)[1], balance)

\* "regular transaction", for the positive values of the matched numbers
RegularBlock(parsed_date, full_text, matches, numeric_values) ==
    IF Len(numeric_values) < 2 THEN <<Skipped("block", parsed_date)>>
    ELSE BlockAmounts(parsed_date,
            BlockDescriptionOr(StrStrip(BlockDescription(full_text, full_text,
                                                         matches, 1))),
            numeric_values,
            SetMax({numeric_values[k] : k \in 1..Len(numeric_values)}))

\* "regular transaction", for the numbers matched in the text
BlockNumbers(parsed_date, full_text, matches) ==
    RegularBlock(parsed_date, full_text, matches,
        SelectSeq([k \in 1..Len(matches) |->
                      ParseAmount(SubSeq(full_text, matches[k][1], matches[k][2]))],
                  LAMBDA v : v > 0))

\* "handle B/F entries specially": the first number of the text is the
\* balance
BroughtForwardBlock(parsed_date, full_text, first_digit) ==
    IF first_digit = {} THEN <<Skipped("block", parsed_date)>>
    ELSE <<Gated("block", parsed_date, <<"B","/","F">>, None, None,
                 Some(ParseAmount(SubSeq(full_text, SetMin(first_digit),
                                         NumEnds(full_text, SetMin(first_digit))[1]))))>>

\* _parse_transaction_block for the text after the date
BlockText(parsed_date, full_text) ==
    IF IsNone(parsed_date) THEN <<Skipped("block", None)>>
    ELSE IF StartsWith(StrUpper(full_text), <<"B","/","F">>)
        THEN BroughtForwardBlock(parsed_date, full_text,
                                 {i \in 1..Len(full_text) : IsDigit(full_text[i])})
    ELSE BlockNumbers(parsed_date, full_text, NumMatches(full_text))

\* _parse_transaction_block for the date that starts the first line
BlockWithDate(lines, date_str) ==
    BlockText(ParseDate(date_str),
              StrStrip(CollapseSpaces(JoinWith(
                  <<StrStrip(SubSeq(lines[1], Len(date_str) + 1, Len(lines[1])))>>
                      \o Tail(lines),
                  <<" ">>))))

\* _parse_transaction_block for the non-empty stripped lines of the block
BlockLines(lines) ==
    IF lines = <<>> THEN <<Skipped("block", None)>>
    ELSE IF DateEnds(lines[1], 1, {"-"}, <<4>>) = <<>> THEN <<Skipped("block", None)>>
    ELSE BlockWithDate(lines, SubSeq(lines[1], 1, DateEnds(lines[1], 1, {"-"}, <<4>>)[1]))

\* [line.strip() for line in lines]
StripAll(lines) == List([i \in 1..Len(lines) |-> StrStrip(lines[i])])

\* FileProcessor._parse_transaction_block, as a sequence of one outcome
ParseTransactionBlock(block) ==
    AllFrom(BlockLines(SelectSeq(StripAll(SplitOn(block, "\n")), LAMBDA l : l # <<>>)),
            block)

\* FileProcessor._extract_transactions_alternative_method, as outcomes
RECURSIVE BlockOutcomes(_, _, _)
BlockOutcomes(text, starts, i) ==
    IF i > Len(starts) THEN <<>>
    ELSE ParseTransactionBlock(
            StrStrip(SubSeq(text, starts[i],
                            IF i < Len(starts) THEN starts[i + 1] - 1 ELSE Len(text))))
         \o BlockOutcomes(text, starts, i + 1)

ExtractTransactionsAlternativeMethod(text) ==
    BlockOutcomes(text, DateMatches(text, 1), 1)

\* "if we found fewer transactions than expected, try alternative extraction"
ExpectedTransactions == 50

\* the outcomes of the method whose transactions are returned
MoreTransactions(enhanced, alternative) ==
    IF Len(Transactions(enhanced)) < ExpectedTransactions
       /\ Len(Transactions(alternative)) > Len(Transactions(enhanced))
    THEN alternative ELSE enhanced

\* FileProcessor._extract_transactions_from_text_enhanced, as the outcomes of
\* the method whose transactions it returns
TextOutcomes(text) ==
    MoreTransactions(
        TextLines(SplitOn(PreprocessMultilineTransactions(text), "\n"), 1),
        ExtractTransactionsAlternativeMethod(text))

(***************************************************************************)
(* Files.  The content of an uploaded file is given by what its readers    *)
(* make of it: kind "csv" is a text, kind "excel" a first sheet (columns   *)
(* and rows of cells, NoneCell for an empty cell), kind "pdf" a sequence   *)
(* of pages with, for each of the two PDF backends, whether it can open    *)
(* the file.  text is also the bytes of the file decoded as latin-1.       *)
(***************************************************************************)
File(kind, text, columns, rows, pages, pdfplumber_ok, pypdf2_ok) ==
    [kind |-> kind, text |-> text, columns |-> columns, rows |-> rows,
     pages |-> pages, pdfplumber_ok |-> pdfplumber_ok, pypdf2_ok |-> pypdf2_ok]

\* the string after the last of the positions of the set, if any
AfterLast(s, positions) ==
    IF positions = {} THEN s ELSE SubSeq(s, SetMax(positions) + 1, Len(s))

\* PurePath(filename).name: what follows the last slash
PathName(filename) ==
    AfterLast(filename, {i \in 1..Len(filename) : filename[i] = "/"})

\* the suffix of a name whose dots are at the positions of the set
Suffix(name, dots) ==
    IF dots = {} THEN <<>>
    ELSE IF SetMax(dots) = 1 \/ SetMax(dots) = Len(name) THEN <<>>
    ELSE SubSeq(name, SetMax(dots), Len(name))

\* the suffix of a name
NameSuffix(name) == Suffix(name, {i \in 1..Len(name) : name[i] = "."})

\* PurePath(filename).suffix: the name from its last dot on, unless that dot
\* is the first or the last character of the name
PathSuffix(filename) == NameSuffix(PathName(filename))

\* the parts without a last empty one
WithoutLastEmpty(parts) ==
    IF parts[Len(parts)] = <<>> THEN SubSeq(parts, 1, Len(parts) - 1) ELSE parts

\* the lines of io.StringIO(content_str): split at "\n", with no line after
\* a final "\n"
StringIOLines(content_str) == WithoutLastEmpty(SplitOn(content_str, "\n"))

\* the row csv.reader makes of each line
ReadLines(lines, delimiter) ==
    List([k \in 1..Len(lines) |->
            IF lines[k] = <<>> THEN <<>> ELSE SplitOn(lines[k], delimiter)])

\* csv.reader over a text without quotes: an empty line is the row [], any
\* other line is split at the delimiter
CsvReader(content_str, delimiter) ==
    ReadLines(StringIOLines(content_str), delimiter)

\* dict(zip(fieldnames, row)) of csv.DictReader, from field k on
RECURSIVE ZipRow(_, _, _, _)
ZipRow(fieldnames, row, k, d) ==
    IF k > Len(fieldnames) \/ k > Len(row) THEN d
    ELSE ZipRow(fieldnames, row, k + 1, DictSet(d, fieldnames[k], row[k]))

\* "for key in fieldnames[lr:]: d[key] = restval", restval being None
RECURSIVE RestVal(_, _, _)
RestVal(fieldnames, k, d) ==
    IF k > Len(fieldnames) THEN d
    ELSE RestVal(fieldnames, k + 1, DictSet(d, fieldnames[k], NoneCell))

\* One row of csv.DictReader.  The values beyond the field names go under
\* the key None (restkey); the key None is NoneCell here and its list of
\* values, which nothing reads, is NoneCell too.
DictRow(fieldnames, row) ==
    IF Len(fieldnames) < Len(row)
    THEN DictSet(ZipRow(fieldnames, row, 1, <<>>), NoneCell, NoneCell)
    ELSE RestVal(fieldnames, Len(row) + 1, ZipRow(fieldnames, row, 1, <<>>))

\* the dicts of the data rows under the field names
DictRows(fieldnames, data) ==
    List([k \in 1..Len(data) |-> DictRow(fieldnames, data[k])])

\* the rows of csv.DictReader over the rows of csv.reader
ReadDicts(reader) ==
    IF reader = <<>> THEN <<>>
    ELSE DictRows(reader[1], SelectSeq(Tail(reader), LAMBDA row : row # <<>>))

\* list(csv.DictReader(io.StringIO(content_str), delimiter=delimiter)): the
\* first line gives the field names, the empty rows after it are skipped
DictReader(content_str, delimiter) == ReadDicts(CsvReader(content_str, delimiter))

\* the delimiters _process_csv tries, in its order
Delimiters == <<",", ";", "\t", "|">>

\* a check that takes a delimiter when any of the rows has more than one
\* column
ValidCsvAnyRow(rows) == \E r \in 1..Len(rows) : Len(rows[r]) > 1

\* "valid CSV with multiple columns"
ValidCsv(rows) == Len(rows) > 0 /\ Len(rows[1]) > 1

\* the delimiters of the configurations _process_csv_with_pandas tries
PandasDelimiters == <<",", ",", ";", ",">>

\* A data frame: the column labels and the rows, a row being the dict of
\* its cells by label; NaN is NoneCell.
DataFrame(columns, rows) ==
    [columns |-> columns,
     rows |-> List([r \in 1..Len(rows) |->
                  List([k \in 1..Len(columns) |->
                          <<columns[k],
                            IF k > Len(rows[r]) \/ rows[r][k] = <<>>
                            THEN NoneCell ELSE rows[r][k]>>])])]

\* the data frame of the non-blank rows of a csv text
FrameOf(reader) ==
    IF reader = <<>> THEN None
    ELSE IF \E k \in 2..Len(reader) : Len(reader[k]) > Len(reader[1]) THEN None
    ELSE Some(DataFrame(reader[1], Tail(reader)))

\* pd.read_csv for a text without quotes: blank lines are skipped, the first
\* line gives the labels, a short row is filled with NaN; None stands for
\* the errors it raises (no line at all, a row longer than the labels)
PandasReadCsv(content_str, delimiter) ==
    FrameOf(SelectSeq(CsvReader(content_str, delimiter), LAMBDA row : row # <<>>))

\* pd.read_excel of the first sheet; None: the bytes are no workbook
PandasReadExcel(content) ==
    IF content.kind # "excel" THEN None
    ELSE Some(DataFrame(content.columns, content.rows))

\* df.columns = df.columns.str.strip().str.lower()
CleanColumns(df) ==
    [columns |-> List([k \in 1..Len(df.columns) |->
                          StrLower(StrStrip(df.columns[k]))]),
     rows |-> List([r \in 1..Len(df.rows) |->
                  List([k \in 1..Len(df.columns) |->
                          <<StrLower(StrStrip(df.columns[k])), df.rows[r][k][2]>>])])]

\* the messages of the errors, outermost first
UnsupportedFileType == <<"Unsupported file type">>

CsvFailed == <<"Failed to process CSV file", "Failed to process CSV with pandas",
               "Could not process CSV with any configuration">>

ExcelUnreadable == <<"Failed to process Excel file", "not a workbook">>

ExcelEmpty == <<"Failed to process Excel file", "Excel file appears to be empty">>

ExcelNoDateColumn == <<"Failed to process Excel file", "Could not identify date column">>

PdfExtractionFailed == <<"Failed to process PDF file",
                         "Could not extract transaction data from PDF">>

(***************************************************************************)
(* The files of the model                                                  *)
(***************************************************************************)
\* the most data rows of a csv file or a sheet
MaxRows == 2

\* the most pages of a PDF file
MaxPages == 2

\* the sequences of a set, with the sequences that add an element of S to
\* one of its sequences of length n
Longer(shorter, S, n) ==
    shorter \cup {Append(s, x) : s \in {t \in shorter : Len(t) = n}, x \in S}

\* the sequences of at most n elements of S
RECURSIVE SeqsUpTo(_, _)
SeqsUpTo(S, n) ==
    IF n = 0 THEN {<<>>} ELSE Longer(SeqsUpTo(S, n - 1), S, n - 1)

Filenames ==
    {<<"a",".","c","s","v">>, <<"b",".","C","S","V">>, <<"c",".","x","l","s","x">>, <<"d",".","X","L","S">>, <<"e",".","p","d","f">>, <<"f",".","t","x","t">>, <<".","p","d","f">>}

\* header rows
PairHeader == <<<<"D","a","t","e">>, <<"D","e","s","c","r","i","p","t","i","o","n">>, <<"D","e","b","i","t">>, <<"C","r","e","d","i","t">>>>

AmountHeader == <<<<"D","a","t","e">>, <<"D","e","s","c","r","i","p","t","i","o","n">>, <<"A","m","o","u","n","t">>>>

AmtHeader == <<<<"d","a","t","e">>, <<"d","e","s","c","r","i","p","t","i","o","n">>, <<"a","m","t">>>>

NoDateHeader == <<<<"f","o","o">>, <<"b","a","r">>>>

HeaderRows == {PairHeader, AmountHeader, AmtHeader, NoDateHeader}

\* data rows
DataRows ==
    {<<<<"0","1","-","0","1","-","2","0","2","4">>, <<"G","r","o","c","e","r","y"," ","S","t","o","r","e">>, <<"2","5","0",".","0","0">>>>,
     <<<<"0","2","-","0","1","-","2","0","2","4">>, <<"S","a","l","a","r","y"," ","d","e","p","o","s","i","t">>, <<"-","1","0","0",".","0","0">>>>,
     <<<<"0","3","-","0","1","-","2","0","2","4">>, <<"B","/","F">>, <<"0",".","0","0">>>>,
     <<<<"a","b","c">>, <<"x","y","z">>>>,
     <<<<"0","5","-","0","1","-","2","0","2","4">>, <<"R","e","f","u","n","d">>, <<"-","5","0",".","0","0">>, <<"1","0","0",".","0","0">>>>,
     <<<<"0","6","-","0","1","-","2","0","2","4">>, <<"S","a","l","a","r","y">>, <<>>, <<"9","0","0",".","0","0">>>>}

\* the lines of a table, the cells joined by the delimiter
TableLines(table, delimiter) ==
    [k \in 1..Len(table) |-> JoinWith(table[k], <<delimiter>>)]

\* the text of a csv file: the header row and the data rows, one per line
CsvText(delimiter, header_row, data_rows) ==
    JoinWith(TableLines(<<header_row>> \o data_rows, delimiter), <<"\n">>) \o <<"\n">>

\* the delimiters the csv files of the model are written with
WrittenDelimiters == {",", ";"}

\* a csv file written with semicolons whose second data row has a comma, the
\* thousands separator of its amount
ThousandsInSecondRow ==
    File("csv", <<"D","a","t","e",";","D","e","s","c","r","i","p","t","i","o","n",";","A","m","o","u","n","t","\n","a","b","c",";","x","y","z","\n","0","7","-","0","1","-","2","0","2","4",";","S","h","o","p",";","1",",","2","5","0",".","0","0","\n">>,
         <<>>, <<>>, <<>>, FALSE, FALSE)

\* a csv file written with semicolons whose amounts have a decimal comma
DecimalCommaStatement ==
    File("csv", <<"D","a","t","e",";","N","a","r","r","a","t","i","o","n",";","D","e","b","i","t",";","C","r","e","d","i","t",";","B","a","l","a","n","c","e","\n","0","1","-","0","1","-","2","0","2","4",";","A","T","M"," ","W","I","T","H","D","R","A","W","A","L",";","5","0","0",",","0","0",";",";","1","2","4","5","0",",","0","0","\n">>,
         <<>>, <<>>, <<>>, FALSE, FALSE)

CsvFiles ==
    {File("csv", CsvText(delimiter, header_row, data_rows), <<>>, <<>>, <<>>,
          FALSE, FALSE) :
        delimiter \in WrittenDelimiters, header_row \in HeaderRows,
        data_rows \in SeqsUpTo(DataRows, MaxRows)}
    \cup {File("csv", <<"D","a","t","e","\n","0","1","-","0","1","-","2","0","2","4","\n">>, <<>>, <<>>, <<>>, FALSE, FALSE),
          ThousandsInSecondRow, DecimalCommaStatement}

\* the label pandas gives the column of index k that has no header cell
Unnamed(k) == <<"U","n","n","a","m","e","d",":"," ">> \o <<CHOOSE c \in DigitChars : DigitVal(c) = k>>

\* the header cells, and a label for every further column up to the width
Labelled(header_row, width) ==
    [k \in 1..width |-> IF k <= Len(header_row) THEN header_row[k] ELSE Unnamed(k - 1)]

\* the columns of a sheet: the header cells, and a label for every further
\* column that a data row fills
SheetColumns(header_row, data_rows) ==
    Labelled(header_row,
             SetMax({Len(header_row)} \cup {Len(data_rows[r]) : r \in 1..Len(data_rows)}))

ExcelFiles ==
    {File("excel", <<"P","K">>, SheetColumns(header_row, data_rows), data_rows, <<>>,
          FALSE, FALSE) :
        header_row \in HeaderRows, data_rows \in SeqsUpTo(DataRows, MaxRows)}

\* a page of a PDF: its tables (rows of cells) and its text
Page(tables, text) == [tables |-> tables, text |-> text]

Pages ==
    {Page(<< << <<<<"D","a","t","e">>, <<"D","e","s","c","r","i","p","t","i","o","n">>, <<"D","e","b","i","t">>, <<"C","r","e","d","i","t">>, <<"B","a","l","a","n","c","e">>>>,
                <<<<"0","1","-","0","1","-","2","0","2","4">>, <<"G","r","o","c","e","r","y"," ","S","t","o","r","e">>, <<"2","5","0",".","0","0">>, <<>>, <<"4",",","7","5","0",".","0","0">>>>,
                <<<<"0","2","-","0","1","-","2","0","2","4">>, <<"B","/","F">>, <<>>, <<>>, <<"5",",","0","0","0",".","0","0">>>>,
                <<<<"0","3","-","0","1","-","2","0","2","4">>, <<"R","e","f","u","n","d">>, <<"-","5","0",".","0","0">>, <<"1","0","0",".","0","0">>, <<"5",",","1","0","0",".","0","0">>>>,
                <<<<"0","4","-","0","1","-","2","0","2","4">>, <<"C","h","e","q","u","e">>, <<>>, <<>>, <<>> >> >> >>, <<>>),
     Page(<< << <<<<"D","a","t","e">>, <<"D","e","s","c","r","i","p","t","i","o","n">>, <<"A","m","o","u","n","t">>>>,
                <<<<"0","5","-","0","1","-","2","0","2","4">>, <<"C","M","S"," ","p","a","y","m","e","n","t">>, <<"3","0","0",".","0","0">>>>,
                <<<<"0","6","-","0","1","-","2","0","2","4">>, <<"R","e","n","t">>, <<"-","5","0",".","0","0">>>> >> >>,
          <<"1","8","-","0","3","-","2","0","2","4"," ","C","a","s","h"," ","d","e","p","o","s","i","t"," ","b","r","a","n","c","h"," ","1",",","0","0","0",".","0","0"," ","1","0",",","0","0","0",".","0","0">>),
     Page(<< << <<<<"D","a","t","e">>, <<"D","e","s","c","r","i","p","t","i","o","n">>, <<"A","m","o","u","n","t">>>>,
                <<<<"n","/","a">>, <<"O","p","e","n","i","n","g">>, <<>> >> >> >>,
          <<"2","0","-","0","3","-","2","0","2","4"," ","C","h","e","q","u","e"," ","d","e","p","o","s","i","t"," ","b","r","a","n","c","h"," ","2",",","0","0","0",".","0","0"," ","1","2",",","0","0","0",".","0","0">>),
     Page(<<>>, <<"1","5","-","0","3","-","2","0","2","4"," ","B","/","F"," ","1","0",",","0","0","0",".","0","0">>),
     Page(<<>>, <<"S","t","a","t","e","m","e","n","t"," ","o","f"," ","a","c","c","o","u","n","t","\n","1","6","-","0","3","-","2","0","2","4"," ","U","P","I"," ","p","a","y","m","e","n","t"," ","t","o"," ","s","h","o","p"," ","0",".","0","0"," ","5","0","0",".","0","0"," ","9",",","5","0","0",".","0","0","\n","1","7","-","0","3","-","2","0","2","4"," ","A","T","M"," ","w","i","t","h","d","r","a","w","a","l"," ","f","e","e"," ","0",".","0","0"," ","9",",","0","0","0",".","0","0","\n","1","8","-","0","3","-","2","0","2","4"," ","C","a","s","h"," ","d","e","p","o","s","i","t"," ","b","r","a","n","c","h"," ","1",",","0","0","0",".","0","0"," ","1","0",",","0","0","0",".","0","0","\n">>),
     Page(<<>>, <<"1","6","-","0","3","-","2","0","2","4"," ","U","P","I"," ","p","a","y","m","e","n","t"," ","t","o"," ","s","h","o","p"," ","0",".","0","0"," ","5","0","0",".","0","0"," ","9",",","5","0","0",".","0","0","\n","1","9","-","0","3","-","2","0","2","4"," ","S","t","a","t","e","m","e","n","t"," ","f","e","e"," ","5","0",".","0","0"," ","9",",","9","5","0",".","0","0">>),
     Page(<<>>, <<"S","t","a","t","e","m","e","n","t","\n","1","6","-","0","3","-","2","0","2","4"," ","U","P","I"," ","p","a","y","m","e","n","t","\n","t","o"," ","s","h","o","p"," ","5","0","0",".","0","0"," ","9",",","5","0","0",".","0","0","\n","\n","P","a","g","e"," ","1","\n","1","7","-","0","3","-","2","0","2","4"," ","F","e","e"," ","5","0",".","0","0"," ","9",",","4","5","0",".","0","0">>),
     Page(<<>>, <<>>)}

PdfFiles ==
    {File("pdf", <<"%","P","D","F">>, <<>>, <<>>, pages, pdfplumber_ok, pypdf2_ok) :
        pages \in SeqsUpTo(Pages, MaxPages),
        pdfplumber_ok \in BOOLEAN, pypdf2_ok \in BOOLEAN}

Files == CsvFiles \cup ExcelFiles \cup PdfFiles

\* the most headers of a header list given to the column mappers
MaxHeaders == 3

\* the headers of the header lists
Headers ==
    {<<"d","a","t","e">>, <<"a","m","o","u","n","t">>, <<"d","e","b","i","t">>, <<"d","r">>, <<"d","e","b","i","t"," ","a","m","o","u","n","t">>, <<"x">>, <<"d","a","y">>}

\* the header lists: the sequences of distinct headers
HeaderLists ==
    {s \in SeqsUpTo(Headers, MaxHeaders) :
        \A i \in 1..Len(s) : \A j \in 1..Len(s) : s[i] = s[j] => i = j}

\* the orders of a list
Orders(s) ==
    {[i \in 1..Len(s) |-> s[f[i]]] :
        f \in {g \in [1..Len(s) -> 1..Len(s)] :
                \A i \in 1..Len(s) : \A j \in 1..Len(s) : g[i] = g[j] => i = j}}

(***************************************************************************)
(* The state: one call of process_file, and one use of the column mappers  *)
(***************************************************************************)
VARIABLES
    filename,            \* the name of the uploaded file
    content,             \* its content
    pc,                  \* the function the call is in
    pipelines,           \* the pipelines the call has entered
    rows,                \* the rows of the row loop (cleaned_rows, df)
    column_mapping,      \* the role map of the row loop
    idx,                 \* the next row or page, from 1
    transactions,        \* the list the call is building
    outcomes,            \* what became of the rows and lines read so far
    status,              \* "running", "returned" or "raised"
    error,               \* the messages of the error raised
    columns,             \* mappers: a header list
    permuted,            \* mappers: the header list in another order
    mapping,             \* mappers: _map_columns(columns)
    permuted_mapping,    \* mappers: _map_columns(permuted)
    table_mapping,       \* mappers: _map_table_columns(columns)
    mapper_pc,           \* mappers: the last step taken
    current_transactions,     \* service: team_manager._current_transactions
    categorized_transactions, \* service: team_manager._categorized_transactions
    category_summary,         \* service: team_manager._category_summary
    last_insights,            \* service: team_manager._last_insights
    session,                  \* service: the default session of SessionManager
    response,                 \* service: the answer to the last request
    agents_called,            \* service: the agents the last request called
    categorized_since_reset,  \* service: a categorization has succeeded since
                              \* the last reset
    index_arg,                \* service: the transaction_index of the last
                              \* request to correct-transaction, if it was one
    uploaded,                 \* service: the file of the last request, if it
                              \* brought one
    validation,               \* service: what validate_file returned in the
                              \* last request, if it was called
    date_arg,                 \* dates: the string given to _parse_date
    date_ret,                 \* dates: what _parse_date returned
    date_pc                   \* dates: the call is to come, or has returned

fileVars == <<filename, content, pc, pipelines, rows, column_mapping, idx,
              transactions, outcomes, status, error>>

mapperVars == <<columns, permuted, mapping, permuted_mapping, table_mapping,
                mapper_pc>>

serviceVars == <<current_transactions, categorized_transactions,
                 category_summary, last_insights, session, response,
                 agents_called, categorized_since_reset, uploaded, validation,
                 index_arg>>

dateVars == <<date_arg, date_ret, date_pc>>

vars == <<fileVars, mapperVars, serviceVars, dateVars>>

\* no call of process_file
FileIdle ==
    /\ filename = <<>>
    /\ content = File("none", <<>>, <<>>, <<>>, <<>>, FALSE, FALSE)
    /\ pc = "idle"
    /\ pipelines = {}
    /\ rows = <<>>
    /\ column_mapping = NoMapping
    /\ idx = 1
    /\ transactions = <<>>
    /\ outcomes = <<>>
    /\ status = "idle"
    /\ error = <<>>

\* no use of the mappers
MapperIdle ==
    /\ columns = <<>>
    /\ permuted = <<>>
    /\ mapping = NoMapping
    /\ permuted_mapping = NoMapping
    /\ table_mapping = NoMapping
    /\ mapper_pc = "idle"

\* no call of _parse_date on its own
DateIdle ==
    /\ date_arg = <<>>
    /\ date_ret = None
    /\ date_pc = "idle"

\* the session _create_new_session makes
NewSession ==
    [transactions |-> <<>>, categorized_transactions |-> <<>>,
     category_summary |-> <<>>, insights |-> None,
     processing_history |-> <<>>, user_corrections |-> <<>>,
     session_stats |-> [files_processed |-> 0, transactions_categorized |-> 0,
                        insights_generated |-> 0, corrections_made |-> 0]]

\* no request answered yet
NoResponse ==
    [endpoint |-> "none", status_code |-> 0, success |-> None, message |-> "",
     total_count |-> None]

\* the service as FinanceTeamManager.__init__ and SessionManager make it: no
\* request handled
ServiceIdle ==
    /\ current_transactions = <<>>
    /\ categorized_transactions = <<>>
    /\ category_summary = <<>>
    /\ last_insights = None
    /\ session = NewSession
    /\ response = NoResponse
    /\ agents_called = {}
    /\ categorized_since_reset = FALSE
    /\ uploaded = None
    /\ index_arg = None
    /\ validation = None

Init ==
    /\ filename \in Filenames
    /\ content \in Files
    /\ pc = "process_file"
    /\ pipelines = {}
    /\ rows = <<>>
    /\ column_mapping = NoMapping
    /\ idx = 1
    /\ transactions = <<>>
    /\ outcomes = <<>>
    /\ status = "running"
    /\ error = <<>>
    /\ MapperIdle
    /\ ServiceIdle
    /\ DateIdle

\* "return transactions" out of process_file
Return ==
    /\ pc' = "done"
    /\ status' = "returned"
    /\ error' = <<>>

\* "raise ValueError(...)" out of process_file
Raise(messages) ==
    /\ pc' = "done"
    /\ status' = "raised"
    /\ error' = messages

\* a call of a function of the pipeline
Call(function) ==
    /\ pc' = function
    /\ UNCHANGED <<status, error>>

\* the suffix as it is written, not lowered
SuffixAsWritten(name) == PathSuffix(name)

\* file_ext = Path(filename).suffix.lower()
FileExt(name) == StrLower(PathSuffix(name))

\* the if/elif chain of process_file on the extension
Dispatch(file_ext) ==
    IF file_ext = <<".","c","s","v">>
        THEN Call("_process_csv") /\ pipelines' = pipelines \cup {"csv"}
    ELSE IF file_ext \in {<<".","x","l","s","x">>, <<".","x","l","s">>}
        THEN Call("_process_excel") /\ pipelines' = pipelines \cup {"excel"}
    ELSE IF file_ext = <<".","p","d","f">>
        THEN Call("_process_pdf") /\ pipelines' = pipelines \cup {"pdf"}
    ELSE Raise(UnsupportedFileType) /\ UNCHANGED pipelines

\* FileProcessor.process_file
ProcessFile ==
    /\ pc = "process_file"
    /\ Dispatch(FileExt(filename))
    /\ UNCHANGED <<filename, content, rows, column_mapping, idx, transactions,
                   outcomes, mapperVars, serviceVars, dateVars>>

\* _extract_transactions_from_rows before its row loop: without a date
\* column the empty list is returned
StartRows(cleaned_rows, row_mapping) ==
    /\ rows' = cleaned_rows
    /\ column_mapping' = row_mapping
    /\ IF Mapped(row_mapping, "date")
       THEN Call("_extract_transactions_from_rows")
       ELSE Return

\* _extract_transactions_from_rows for the cleaned rows
MapRows(cleaned_rows) ==
    IF cleaned_rows = <<>> THEN Return /\ UNCHANGED <<rows, column_mapping>>
    ELSE StartRows(cleaned_rows, RowsColumnMapping(cleaned_rows))

\* the delimiter loop of _process_csv, for the delimiters that give a valid
\* csv: the first of them is taken; with none, pandas is tried
TryDelimiters(content_str, valid) ==
    IF valid = {}
    THEN Call("_process_csv_with_pandas") /\ UNCHANGED <<rows, column_mapping>>
    ELSE MapRows(CleanRows(DictReader(content_str, Delimiters[SetMin(valid)])))

\* FileProcessor._process_csv, up to the row loop of
\* _extract_transactions_from_rows: the text is decoded, the first delimiter
\* that gives a valid csv is taken, the rows are cleaned and the columns
\* mapped
ProcessCsv ==
    /\ pc = "_process_csv"
    /\ TryDelimiters(content.text,
                     {d \in 1..Len(Delimiters) :
                        ValidCsv(DictReader(content.text, Delimiters[d]))})
    /\ idx' = 1
    /\ UNCHANGED <<filename, content, pipelines, transactions, outcomes,
                   mapperVars, serviceVars, dateVars>>

\* the outcome of a row is recorded and its transaction, if any, appended
Record(outcome) ==
    /\ outcomes' = Append(outcomes, outcome)
    /\ transactions' = transactions \o outcome.txn

\* one turn of the row loop of _extract_transactions_from_rows
ExtractTransactionsFromRows ==
    /\ pc = "_extract_transactions_from_rows"
    /\ idx <= Len(rows)
    /\ Record(From(RowsParseRow(rows[idx], column_mapping), rows[idx],
                   column_mapping))
    /\ idx' = idx + 1
    /\ UNCHANGED <<filename, content, pc, pipelines, rows, column_mapping,
                   status, error, mapperVars, serviceVars, dateVars>>

\* the end of the row loop of _extract_transactions_from_rows
RowsReturn ==
    /\ pc = "_extract_transactions_from_rows"
    /\ idx > Len(rows)
    /\ Return
    /\ UNCHANGED <<filename, content, pipelines, rows, column_mapping, idx,
                   transactions, outcomes, mapperVars, serviceVars, dateVars>>

\* a data frame read without error is not empty, has more than one column
\* and a date column
FrameWorks(df) ==
    /\ ~IsNone(df)
    /\ Val(df).rows # <<>>
    /\ Len(Val(df).columns) > 1
    /\ Mapped(MapColumns(CleanColumns(Val(df)).columns), "date")

\* the data frame a configuration of _process_csv_with_pandas goes on with:
\* read without error, not empty, more than one column, and with a date
\* column (the error of _extract_transactions_from_dataframe is caught like
\* the others)
PandasConfigWorks(content_str, delimiter) ==
    FrameWorks(PandasReadCsv(content_str, delimiter))

\* _extract_transactions_from_dataframe before its row loop
StartDataframe(df) ==
    /\ Call("_extract_transactions_from_dataframe")
    /\ rows' = df.rows
    /\ column_mapping' = MapColumns(df.columns)

\* the configuration loop of _process_csv_with_pandas, for the
\* configurations that work: the first of them is taken
TryConfigurations(content_str, works) ==
    IF works = {}
    THEN Raise(CsvFailed) /\ UNCHANGED <<rows, column_mapping>>
    ELSE StartDataframe(CleanColumns(Val(
            PandasReadCsv(content_str, PandasDelimiters[SetMin(works)]))))

\* FileProcessor._process_csv_with_pandas, up to the row loop of
\* _extract_transactions_from_dataframe
ProcessCsvWithPandas ==
    /\ pc = "_process_csv_with_pandas"
    /\ TryConfigurations(content.text,
                         {c \in 1..Len(PandasDelimiters) :
                            PandasConfigWorks(content.text, PandasDelimiters[c])})
    /\ idx' = 1
    /\ UNCHANGED <<filename, content, pipelines, transactions, outcomes,
                   mapperVars, serviceVars, dateVars>>

\* _extract_transactions_from_dataframe before its row loop, in
\* _process_excel: without a date column it raises
MapDataframe(frame_rows, frame_mapping) ==
    /\ rows' = frame_rows
    /\ column_mapping' = frame_mapping
    /\ IF Mapped(frame_mapping, "date")
       THEN Call("_extract_transactions_from_dataframe")
       ELSE Raise(ExcelNoDateColumn)

\* _process_excel for the first sheet with its columns cleaned
CheckDataframe(df) ==
    IF df.rows = <<>> \/ df.columns = <<>>
    THEN Raise(ExcelEmpty) /\ UNCHANGED <<rows, column_mapping>>
    ELSE MapDataframe(df.rows, MapColumns(df.columns))

\* _process_excel for what pd.read_excel gives
ReadSheet(read) ==
    IF IsNone(read)
    THEN Raise(ExcelUnreadable) /\ UNCHANGED <<rows, column_mapping>>
    ELSE CheckDataframe(CleanColumns(Val(read)))

\* FileProcessor._process_excel, up to the row loop of
\* _extract_transactions_from_dataframe
ProcessExcel ==
    /\ pc = "_process_excel"
    /\ ReadSheet(PandasReadExcel(content))
    /\ idx' = 1
    /\ UNCHANGED <<filename, content, pipelines, transactions, outcomes,
                   mapperVars, serviceVars, dateVars>>

\* one turn of the row loop of _extract_transactions_from_dataframe
ExtractTransactionsFromDataframe ==
    /\ pc = "_extract_transactions_from_dataframe"
    /\ idx <= Len(rows)
    /\ Record(From(DfParseRow(rows[idx], column_mapping), rows[idx],
                   column_mapping))
    /\ idx' = idx + 1
    /\ UNCHANGED <<filename, content, pc, pipelines, rows, column_mapping,
                   status, error, mapperVars, serviceVars, dateVars>>

\* the end of the row loop of _extract_transactions_from_dataframe
DataframeReturn ==
    /\ pc = "_extract_transactions_from_dataframe"
    /\ idx > Len(rows)
    /\ Return
    /\ UNCHANGED <<filename, content, pipelines, rows, column_mapping, idx,
                   transactions, outcomes, mapperVars, serviceVars, dateVars>>

\* FileProcessor._process_pdf: pdfplumber first; if it cannot open the file
\* the error is logged and PyPDF2 is tried
ProcessPdf ==
    /\ pc = "_process_pdf"
    /\ IF content.kind = "pdf" /\ content.pdfplumber_ok
       THEN Call("_process_pdf_with_pdfplumber")
       ELSE Call("_process_pdf_with_pypdf2")
    /\ idx' = 1
    /\ UNCHANGED <<filename, content, pipelines, rows, column_mapping,
                   transactions, outcomes, mapperVars, serviceVars, dateVars>>

\* the outcomes of the tables of a page, from table t on
RECURSIVE PageTableOutcomes(_, _)
PageTableOutcomes(tables, t) ==
    IF t > Len(tables) THEN <<>>
    ELSE TableOutcomes(tables[t]) \o PageTableOutcomes(tables, t + 1)

\* a page loop that extracts the text of every page that has one
WithTextAlways(page, table_outcomes) ==
    IF page.text # <<>>
    THEN table_outcomes \o TextOutcomes(page.text)
    ELSE table_outcomes

\* "if no tables found or tables didn't yield transactions, fall back to
\* text extraction"
WithTextFallback(page, table_outcomes) ==
    IF Transactions(table_outcomes) = <<>> /\ page.text # <<>>
    THEN table_outcomes \o TextOutcomes(page.text)
    ELSE table_outcomes

\* the body of the page loop of _process_pdf_with_pdfplumber: the tables,
\* and the text if the tables gave no transaction
PdfplumberPage(page) == WithTextFallback(page, PageTableOutcomes(page.tables, 1))

\* a page loop that puts the transactions of a page before those of the
\* pages read so far
ExtendFront(page_outcomes) ==
    /\ outcomes' = page_outcomes \o outcomes
    /\ transactions' = Transactions(page_outcomes) \o transactions

\* transactions.extend(page_transactions), with the outcomes of the page
Extend(page_outcomes) ==
    /\ outcomes' = outcomes \o page_outcomes
    /\ transactions' = transactions \o Transactions(page_outcomes)

\* one turn of the page loop of _process_pdf_with_pdfplumber
ProcessPdfWithPdfplumber ==
    /\ pc = "_process_pdf_with_pdfplumber"
    /\ idx <= Len(content.pages)
    /\ Extend(PdfplumberPage(content.pages[idx]))
    /\ idx' = idx + 1
    /\ UNCHANGED <<filename, content, pc, pipelines, rows, column_mapping,
                   status, error, mapperVars, serviceVars, dateVars>>

\* a _process_pdf that returns what pdfplumber gave, empty or not, and never
\* tries PyPDF2 after it
PdfplumberOnly ==
    /\ pc = "_process_pdf_with_pdfplumber"
    /\ idx > Len(content.pages)
    /\ Return
    /\ UNCHANGED <<filename, content, pipelines, rows, column_mapping, idx,
                   transactions, outcomes, mapperVars, serviceVars, dateVars>>

\* the end of _process_pdf_with_pdfplumber, back in _process_pdf: the
\* transactions are returned if there are any, else PyPDF2 is tried
PdfplumberReturn ==
    /\ pc = "_process_pdf_with_pdfplumber"
    /\ idx > Len(content.pages)
    /\ IF transactions # <<>>
       THEN Return /\ UNCHANGED <<idx, transactions, outcomes>>
       ELSE /\ Call("_process_pdf_with_pypdf2")
            /\ idx' = 1
            /\ transactions' = <<>>
            /\ outcomes' = <<>>
    /\ UNCHANGED <<filename, content, pipelines, rows, column_mapping,
                   mapperVars, serviceVars, dateVars>>

\* PyPDF2.PdfReader can open the file
Pypdf2Reads == content.kind = "pdf" /\ content.pypdf2_ok

\* the body of the page loop of _process_pdf_with_pypdf2
Pypdf2Page(page) ==
    IF page.text # <<>> THEN TextOutcomes(page.text) ELSE <<>>

\* one turn of the page loop of _process_pdf_with_pypdf2
ProcessPdfWithPypdf2 ==
    /\ pc = "_process_pdf_with_pypdf2"
    /\ Pypdf2Reads
    /\ idx <= Len(content.pages)
    /\ Extend(Pypdf2Page(content.pages[idx]))
    /\ idx' = idx + 1
    /\ UNCHANGED <<filename, content, pc, pipelines, rows, column_mapping,
                   status, error, mapperVars, serviceVars, dateVars>>

\* a _process_pdf that returns what it has, empty or not
ReturnAlways(extracted) == Return

\* "if transactions: return transactions", else "raise ValueError"
ReturnOrRaise(extracted) ==
    IF extracted # <<>> THEN Return ELSE Raise(PdfExtractionFailed)

\* the end of _process_pdf_with_pypdf2, back in _process_pdf: the
\* transactions are returned if there are any; with none, or with an error
\* of PyPDF2, _process_pdf raises
Pypdf2Return ==
    /\ pc = "_process_pdf_with_pypdf2"
    /\ ~Pypdf2Reads \/ idx > Len(content.pages)
    /\ ReturnOrRaise(IF Pypdf2Reads THEN transactions ELSE <<>>)
    /\ UNCHANGED <<filename, content, pipelines, rows, column_mapping, idx,
                   transactions, outcomes, mapperVars, serviceVars, dateVars>>

Next ==
    \/ ProcessFile
    \/ ProcessCsv
    \/ ExtractTransactionsFromRows
    \/ RowsReturn
    \/ ProcessCsvWithPandas
    \/ ProcessExcel
    \/ ExtractTransactionsFromDataframe
    \/ DataframeReturn
    \/ ProcessPdf
    \/ ProcessPdfWithPdfplumber
    \/ PdfplumberReturn
    \/ ProcessPdfWithPypdf2
    \/ Pypdf2Return

Spec == Init /\ [][Next]_vars

(***************************************************************************)
(* The column mappers on their own: a header list is mapped by both        *)
(* mappers, put in another order and mapped again                          *)
(***************************************************************************)
InitMapper ==
    /\ FileIdle
    /\ ServiceIdle
    /\ DateIdle
    /\ columns \in HeaderLists
    /\ permuted = <<>>
    /\ mapping = NoMapping
    /\ permuted_mapping = NoMapping
    /\ table_mapping = NoMapping
    /\ mapper_pc = "columns"

\* column_mapping = self._map_columns(columns)
CallMapColumns ==
    /\ mapper_pc = "columns"
    /\ mapping' = MapColumns(columns)
    /\ mapper_pc' = "_map_columns"
    /\ UNCHANGED <<fileVars, serviceVars, dateVars, columns, permuted, permuted_mapping, table_mapping>>

\* column_mapping = self._map_table_columns(header_row)
CallMapTableColumns ==
    /\ mapper_pc = "_map_columns"
    /\ table_mapping' = MapTableColumns(columns)
    /\ mapper_pc' = "_map_table_columns"
    /\ UNCHANGED <<fileVars, serviceVars, dateVars, columns, permuted, mapping, permuted_mapping>>

\* the same headers come in another order
Permute ==
    /\ mapper_pc = "_map_table_columns"
    /\ permuted' \in Orders(columns)
    /\ mapper_pc' = "permuted"
    /\ UNCHANGED <<fileVars, serviceVars, dateVars, columns, mapping, permuted_mapping, table_mapping>>

\* column_mapping = self._map_columns(columns), for the other order
CallMapColumnsPermuted ==
    /\ mapper_pc = "permuted"
    /\ permuted_mapping' = MapColumns(permuted)
    /\ mapper_pc' = "done"
    /\ UNCHANGED <<fileVars, serviceVars, dateVars, columns, permuted, mapping, table_mapping>>

NextMapper ==
    \/ CallMapColumns
    \/ CallMapTableColumns
    \/ Permute
    \/ CallMapColumnsPermuted

SpecMapper == InitMapper /\ [][NextMapper]_vars

(***************************************************************************)
(* The service: the requests to upload-statement, categorize-transactions, *)
(* generate-insights and reset-session, handled one at a time.  The state  *)
(* is that of FinanceTeamManager and of the default session of             *)
(* SessionManager.  What process_file makes of an uploaded file and what   *)
(* the two agents answer are inputs of the requests.                       *)
(***************************************************************************)
\* the most transactions of an uploaded file
MaxUploaded == 2

\* the most entries of the processing history of a session: a request is
\* taken only while the history is shorter
MaxHistory == 4

\* the most user corrections of a session: a correction is taken only while
\* the session has recorded fewer
MaxCorrections == 1

\* the transactions the uploaded files are made of
SampleTransactions ==
    {Val(Transaction(Val(MakeDate(Some(2024), Some(1), Some(1))),
                     <<"G","r","o","c","e","r","y"," ","S","t","o","r","e">>, Some(25000), Some("debit"), None)),
     Val(Transaction(Val(MakeDate(Some(2024), Some(1), Some(2))),
                     <<"S","a","l","a","r","y">>, Some(90000), Some("credit"), None))}

\* the lists process_file returns for the uploaded files: no transaction
\* comes twice in a row
ExtractedLists ==
    {extracted \in SeqsUpTo(SampleTransactions, MaxUploaded) :
        \A i \in 1..(Len(extracted) - 1) : extracted[i] # extracted[i + 1]}

\* settings.allowed_file_types
AllowedFileTypes == {<<"c","s","v">>, <<"x","l","s","x">>, <<"x","l","s">>, <<"p","d","f">>}

\* settings.max_file_size_bytes
MaxFileSizeBytes == 10485760

\* the names of the files validate_file is called for
UploadNames == {<<"b",".","C","S","V">>, <<"f",".","t","x","t">>, <<".","p","d","f">>}

\* the sizes of the files
FileSizes == {0, MaxFileSizeBytes, MaxFileSizeBytes + 1}

\* "file.filename.split('.')[-1].lower() if '.' in file.filename else ''"
RouteFileExt(name) ==
    IF Contains(name, <<".">>)
    THEN StrLower(SplitOn(name, ".")[Len(SplitOn(name, "."))])
    ELSE <<>>

\* the result of validate_file
Validation(valid, errors, file_type, file_size) ==
    [valid |-> valid, errors |-> errors, file_type |-> file_type,
     file_size |-> file_size]

\* FileProcessor.validate_file for a size and an extension
ValidateFileOf(file_size, file_ext) ==
    IF file_ext \notin {<<".","c","s","v">>, <<".","x","l","s","x">>, <<".","x","l","s">>, <<".","p","d","f">>}
    THEN Validation(FALSE, "Unsupported file type", file_ext, file_size)
    ELSE IF file_size > MaxFileSizeBytes
    THEN Validation(FALSE, "File too large", file_ext, file_size)
    ELSE IF file_size = 0
    THEN Validation(FALSE, "File is empty", file_ext, file_size)
    ELSE Validation(TRUE, "", file_ext, file_size)

ValidateFile(file_size, name) == ValidateFileOf(file_size, FileExt(name))

\* an uploaded file, by what the upload makes of it: its extension is one of
\* settings.allowed_file_types, its size is within the limit,
\* validate_file finds it valid, and process_file returns the list
\* extracted, or raises (None)
UploadedFile(allowed, size_ok, valid, extracted) ==
    [allowed |-> allowed, size_ok |-> size_ok, valid |-> valid,
     extracted |-> extracted]

\* an uploaded file with its name and its size
Upload(name, file_size, extracted) ==
    [filename |-> name, file_size |-> file_size,
     allowed |-> RouteFileExt(name) \in AllowedFileTypes,
     size_ok |-> file_size <= MaxFileSizeBytes,
     valid |-> ValidateFile(file_size, name).valid,
     extracted |-> extracted]

\* the uploaded files: files the route or validate_file refuses, a file
\* process_file raises for, and statements in CSV process_file returns a
\* list for
UploadedFiles ==
    {Upload(<<"f",".","t","x","t">>, 1, None), Upload(<<"d","a","t","a">>, 1, None),
     Upload(<<"a",".","c","s","v">>, MaxFileSizeBytes + 1, None),
     Upload(<<".","p","d","f">>, 1, None), Upload(<<"b",".","C","S","V">>, 0, None),
     Upload(<<"a",".","c","s","v">>, 1, None)}
    \cup {Upload(<<"a",".","c","s","v">>, 1, Some(extracted)) : extracted \in ExtractedLists}

\* the categories the categorization agent gives
Categories == {"Groceries", "Salary/Income"}

\* a response model that validated, as the body of an HTTP 200 answer
ModelResponse(endpoint, success, message) ==
    [endpoint |-> endpoint, status_code |-> 200, success |-> Some(success),
     message |-> message, total_count |-> None]

\* the answer of http_exception_handler to an HTTPException: the body has
\* "error" and "message" and no "success"
HttpError(endpoint, status_code, detail) ==
    [endpoint |-> endpoint, status_code |-> status_code, success |-> None,
     message |-> detail, total_count |-> None]

\* the messages
UnsupportedUpload == "Unsupported file type. Allowed: csv,xlsx,xls,pdf"

FileTooLarge == "File too large. Maximum size"

ValidationFailed == "File validation failed"

FailedToProcessFile == "Failed to process file"

NoTransactionsFound == "No transactions found in the file. Please check the file format."

UploadProcessed == "Successfully processed. Transaction extraction completed by AI agent."

NoTransactionsAvailable ==
    "No transactions available for categorization. Please upload a file first."

FailedToCategorize == "Failed to categorize transactions"

ProcessingFailed == "Processing failed"

SuccessfullyCategorized == "Successfully categorized transactions"

NoCategorizedTransactions ==
    "No categorized transactions available. Please upload and categorize transactions first."

InsightsGenerationFailed == "Insights generation failed"

InsightsGenerated == "Insights generated successfully"

SessionReset == "Session reset successfully"

InvalidTransactionIndex == "Invalid transaction index"

CorrectionFailed == "Correction failed"

\* an entry of session["processing_history"], by its action (the timestamp
\* and the details are left out)
HistoryEntry(action) == [action |-> action]

\* there is room in the processing history
HistoryRoom == Len(session.processing_history) < MaxHistory

\* a store_transactions that drops what was derived from the file before
StoreTransactionsAfresh(s, txns) ==
    [s EXCEPT !.transactions = txns,
              !.categorized_transactions = <<>>,
              !.category_summary = <<>>,
              !.insights = None,
              !.session_stats.files_processed = @ + 1,
              !.processing_history = Append(@, HistoryEntry("file_upload"))]

\* SessionManager.store_transactions
StoreTransactions(s, txns) ==
    [s EXCEPT !.transactions = txns,
              !.session_stats.files_processed = @ + 1,
              !.processing_history = Append(@, HistoryEntry("file_upload"))]

\* SessionManager.store_categorized_transactions
StoreCategorizedTransactions(s, categorized, summary) ==
    [s EXCEPT !.categorized_transactions = categorized,
              !.category_summary = summary,
              !.session_stats.transactions_categorized = Len(categorized),
              !.processing_history = Append(@, HistoryEntry("categorization"))]

\* a store_insights that does not count
StoreInsightsUncounted(s, insights) ==
    [s EXCEPT !.insights = Some(insights),
              !.processing_history = Append(@, HistoryEntry("insights_generation"))]

\* SessionManager.store_insights
StoreInsights(s, insights) ==
    [s EXCEPT !.insights = Some(insights),
              !.session_stats.insights_generated = @ + 1,
              !.processing_history = Append(@, HistoryEntry("insights_generation"))]

\* a refusal that forgets the transactions loaded before
UploadRefusedClearing(status_code, detail) ==
    /\ response' = HttpError("upload-statement", status_code, detail)
    /\ current_transactions' = <<>>
    /\ UNCHANGED session

\* the upload is refused: nothing is stored
UploadRefused(status_code, detail) ==
    /\ response' = HttpError("upload-statement", status_code, detail)
    /\ UNCHANGED <<current_transactions, session>>

\* the route refuses the upload before validate_file is called
UploadRejected(status_code, detail) ==
    /\ UploadRefused(status_code, detail)
    /\ validation' = None

\* "self.team_manager._current_transactions = transactions", then
\* session.store_transactions and the UploadResponse
UploadStored(extracted) ==
    /\ current_transactions' = extracted
    /\ session' = StoreTransactions(session, extracted)
    /\ response' = ModelResponse("upload-statement", TRUE, UploadProcessed)

\* TransactionService.process_uploaded_file and what the route makes of its
\* result: a result without success is answered with HTTP 400
ProcessUploadedFile(file) ==
    /\ validation' = Some(ValidateFile(file.file_size, file.filename))
    /\ IF ~file.valid THEN UploadRefused(400, ValidationFailed)
       ELSE IF IsNone(file.extracted) THEN UploadRefused(400, FailedToProcessFile)
       ELSE IF Val(file.extracted) = <<>> THEN UploadRefused(400, NoTransactionsFound)
       ELSE UploadStored(Val(file.extracted))

\* a route that checks the size of the file and not its extension
CheckUploadSizeOnly(file) ==
    IF ~file.size_ok THEN UploadRejected(413, FileTooLarge)
    ELSE ProcessUploadedFile(file)

\* the checks of the route before the file is processed
CheckUpload(file) ==
    IF ~file.allowed THEN UploadRejected(422, UnsupportedUpload)
    ELSE IF ~file.size_ok THEN UploadRejected(413, FileTooLarge)
    ELSE ProcessUploadedFile(file)

\* POST /api/v1/upload-statement
UploadBankStatement ==
    /\ HistoryRoom
    /\ \E file \in UploadedFiles :
          /\ uploaded' = Some([filename |-> file.filename,
                               file_size |-> file.file_size])
          /\ CheckUpload(file)
    /\ index_arg' = None
    /\ agents_called' = {}
    /\ UNCHANGED <<categorized_transactions, category_summary, last_insights,
                   categorized_since_reset, fileVars, mapperVars, dateVars>>

\* a CategorizedTransaction: the transaction with its category
CategorizedTransaction(txn, category) ==
    [transaction_date |-> txn.transaction_date, description |-> txn.description,
     amount |-> txn.amount, type |-> txn.type, balance |-> txn.balance,
     category |-> category]

\* the transactions with the categories the agent chose
Categorized(txns, chosen) ==
    List([i \in 1..Len(txns) |-> CategorizedTransaction(txns[i], chosen[i])])

\* what CategorizationAgent.categorize_transactions can do: raise (None),
\* return no categorized transaction, or return the transactions with a
\* category each
CategorizationResults(txns) ==
    {None, Some(<<>>)}
    \cup {Some(Categorized(txns, chosen)) : chosen \in [1..Len(txns) -> Categories]}

\* sum(txn.amount for txn in txns)
RECURSIVE SumAmounts(_)
SumAmounts(txns) ==
    IF txns = <<>> THEN 0 ELSE Val(txns[1].amount) + SumAmounts(Tail(txns))

\* the keys of category_data: the categories in the order they first appear,
\* from transaction i on
RECURSIVE CategoryKeys(_, _)
CategoryKeys(txns, i) ==
    IF i > Len(txns) THEN <<>>
    ELSE IF \E j \in 1..(i - 1) : txns[j].category = txns[i].category
        THEN CategoryKeys(txns, i + 1)
    ELSE <<txns[i].category>> \o CategoryKeys(txns, i + 1)

\* the CategorySummary of the transactions of a category: the total and the
\* count (the percentage and the derived fields are left out)
CategorySummary(txns) ==
    [total_amount |-> SumAmounts(txns), transaction_count |-> Len(txns)]

\* the summaries of the debit transactions under the keys
SummariesOf(debits, keys) ==
    List([k \in 1..Len(keys) |->
            <<keys[k],
              CategorySummary(SelectSeq(debits, LAMBDA t : t.category = keys[k]))>>])

\* the summaries of the debit transactions
DebitSummaries(debits) == SummariesOf(debits, CategoryKeys(debits, 1))

\* FinanceTeamManager._generate_category_summary: only the debits count
GenerateCategorySummary(txns) ==
    DebitSummaries(SelectSeq(txns, LAMBDA t : t.type = Some("debit")))

\* the categorization fails: the CategorizationResponse carries the message
\* and empty data, and nothing is stored
CategorizationFails(message) ==
    /\ response' = ModelResponse("categorize-transactions", FALSE, message)
    /\ UNCHANGED <<categorized_transactions, category_summary, session,
                   categorized_since_reset>>

\* the categorization succeeds: the team manager stores the categorized
\* transactions and their summary, the route stores them in the session
CategorizationSucceeds(categorized, summary) ==
    /\ categorized_transactions' = categorized
    /\ category_summary' = summary
    /\ session' = StoreCategorizedTransactions(session, categorized, summary)
    /\ categorized_since_reset' = TRUE
    /\ response' = ModelResponse("categorize-transactions", TRUE,
                                 SuccessfullyCategorized)

\* FinanceTeamManager.process_transactions for what the agent does
ProcessTransactions(agent_result) ==
    IF IsNone(agent_result) THEN CategorizationFails(ProcessingFailed)
    ELSE IF Val(agent_result) = <<>> THEN CategorizationFails(FailedToCategorize)
    ELSE CategorizationSucceeds(Val(agent_result),
                                GenerateCategorySummary(Val(agent_result)))

\* a categorize_transactions that hands the transactions to the team
\* manager without looking whether there are any
CategorizeUnchecked(agent_result) ==
    /\ ProcessTransactions(agent_result)
    /\ agents_called' = {"categorization"}

\* TransactionService.categorize_transactions: without current transactions
\* it answers at once, else the team manager processes them
CategorizeChecked(agent_result) ==
    IF current_transactions = <<>>
    THEN CategorizationFails(NoTransactionsAvailable) /\ agents_called' = {}
    ELSE ProcessTransactions(agent_result) /\ agents_called' = {"categorization"}

\* GET /api/v1/categorize-transactions
CategorizeTransactions ==
    /\ uploaded' = None
    /\ index_arg' = None
    /\ validation' = None
    /\ HistoryRoom
    /\ \E agent_result \in CategorizationResults(current_transactions) :
          CategorizeChecked(agent_result)
    /\ UNCHANGED <<current_transactions, last_insights, fileVars, mapperVars, dateVars>>

\* the fields FinancialInsights requires
RequiredInsightFields ==
    {"key_insights", "spending_behavior", "recommendations", "financial_health",
     "statistical_insights", "metadata"}

\* the dict {}
EmptyDict == [fields |-> {}, total_transactions |-> 0]

\* the FinancialInsights the insights agent builds for the categorized
\* transactions, by the fields it has and metadata.total_transactions
FinancialInsights(categorized) ==
    [fields |-> RequiredInsightFields, total_transactions |-> Len(categorized)]

\* InsightsResponse(success=..., message=..., insights=...): the insights
\* are validated as FinancialInsights; None is the ValidationError
InsightsResponse(success, message, insights) ==
    IF RequiredInsightFields \subseteq insights.fields
    THEN Some(ModelResponse("generate-insights", success, message))
    ELSE None

\* an InsightsResponse that takes any insights
InsightsResponseUnvalidated(success, message, insights) ==
    Some(ModelResponse("generate-insights", success, message))

\* the route answers with the response model; a ValidationError is caught
\* by "except Exception" and answered with HTTP 500
AnswerInsights(validated) ==
    response' = IF IsNone(validated)
                THEN HttpError("generate-insights", 500, InsightsGenerationFailed)
                ELSE Val(validated)

\* the result has no success: the route answers with
\* InsightsResponse(success=False, message=..., insights={})
InsightsFail(message) ==
    /\ AnswerInsights(InsightsResponse(FALSE, message, EmptyDict))
    /\ UNCHANGED <<last_insights, session>>

\* the insights are stored by the team manager and in the session, and
\* answered
InsightsSucceed(insights) ==
    /\ last_insights' = Some(insights)
    /\ session' = StoreInsights(session, insights)
    /\ AnswerInsights(InsightsResponse(TRUE, InsightsGenerated, insights))

\* what InsightsAgent.generate_insights can do: raise (None) or return the
\* insights
InsightsResults(categorized) == {None, Some(FinancialInsights(categorized))}

\* TransactionService.generate_insights: without categorized transactions
\* it answers at once, else the team manager asks the insights agent
GenerateInsightsChecked(agent_result) ==
    IF categorized_transactions = <<>>
    THEN InsightsFail(NoCategorizedTransactions) /\ agents_called' = {}
    ELSE /\ agents_called' = {"insights"}
         /\ IF IsNone(agent_result) THEN InsightsFail(InsightsGenerationFailed)
            ELSE InsightsSucceed(Val(agent_result))

\* GET /api/v1/generate-insights
GenerateInsights ==
    /\ uploaded' = None
    /\ index_arg' = None
    /\ validation' = None
    /\ HistoryRoom
    /\ \E agent_result \in InsightsResults(categorized_transactions) :
          GenerateInsightsChecked(agent_result)
    /\ UNCHANGED <<current_transactions, categorized_transactions,
                   category_summary, categorized_since_reset, fileVars,
                   mapperVars, dateVars>>

\* a reset_team_state that forgets the transactions and keeps what was
\* derived from them
ResetTransactionsOnly ==
    /\ current_transactions' = <<>>
    /\ categorized_transactions' = <<>>
    /\ UNCHANGED <<category_summary, last_insights>>

\* FinanceTeamManager.reset_team_state
ResetTeamState ==
    /\ current_transactions' = <<>>
    /\ categorized_transactions' = <<>>
    /\ category_summary' = <<>>
    /\ last_insights' = None

\* POST /api/v1/reset-session: reset_team_state and SessionManager.reset_session
ResetSession ==
    /\ uploaded' = None
    /\ index_arg' = None
    /\ validation' = None
    /\ ResetTeamState
    /\ session' = NewSession
    /\ response' = ModelResponse("reset-session", TRUE, SessionReset)
    /\ agents_called' = {}
    /\ categorized_since_reset' = FALSE
    /\ UNCHANGED <<fileVars, mapperVars, dateVars>>

\* TransactionListResponse(success=True, transactions=..., total_count=...)
TransactionListResponse(txns) ==
    [endpoint |-> "current-transactions", status_code |-> 200,
     success |-> Some(TRUE), message |-> "", total_count |-> Some(Len(txns))]

\* GET /api/v1/current-transactions
GetCurrentTransactions ==
    /\ uploaded' = None
    /\ index_arg' = None
    /\ validation' = None
    /\ response' = TransactionListResponse(current_transactions)
    /\ agents_called' = {}
    /\ UNCHANGED <<current_transactions, categorized_transactions,
                   category_summary, last_insights, session,
                   categorized_since_reset, fileVars, mapperVars, dateVars>>

\* the values of the query parameter transaction_index
TransactionIndexes == (0 - (MaxUploaded + 1)) .. MaxUploaded

\* the place of lst[index] in a Python list of n elements, counted from 1: a
\* negative index counts from the end; 0 is the IndexError
ListPlace(index, n) ==
    IF 0 <= index /\ index < n THEN index + 1
    ELSE IF index < 0 /\ 0 - n <= index THEN n + index + 1
    ELSE 0

\* the correction dict of SessionManager.record_user_correction
Correction(transaction_index, original_category, correct_category) ==
    [transaction_index |-> transaction_index,
     original_category |-> original_category,
     correct_category |-> correct_category]

\* SessionManager.record_user_correction
RecordUserCorrection(s, correction) ==
    [s EXCEPT !.user_corrections = Append(@, correction),
              !.session_stats.corrections_made = @ + 1,
              !.processing_history = Append(@, HistoryEntry("user_correction"))]

\* the categorized transactions with "transaction.category =
\* correct_category" done at the place
WithCategory(categorized, place, correct_category) ==
    [categorized EXCEPT ![place].category = correct_category]

\* the correction is refused: nothing is changed
CorrectionRefused(status_code, detail) ==
    /\ response' = HttpError("correct-transaction", status_code, detail)
    /\ agents_called' = {}
    /\ UNCHANGED <<categorized_transactions, category_summary, session>>

\* FinanceTeamManager.handle_user_correction lets the categorization agent
\* learn, changes the transaction at the place and regenerates the summary,
\* the route records the correction in
\* the session; the JSONResponse is then built with the
\* CategorizedTransaction in its content, which json.dumps does not
\* serialize: the TypeError is answered with HTTP 500
CorrectionApplied(transaction_index, place, correct_category, corrected) ==
    /\ categorized_transactions' = corrected
    /\ category_summary' = GenerateCategorySummary(corrected)
    /\ session' = RecordUserCorrection(session,
                      Correction(transaction_index,
                                 categorized_transactions[place].category,
                                 correct_category))
    /\ response' = HttpError("correct-transaction", 500, CorrectionFailed)
    /\ agents_called' = {"categorization"}

\* the route and FinanceTeamManager.handle_user_correction: both refuse an
\* index that is len(categorized_transactions) or more, and take
\* categorized_transactions[transaction_index] for any other
HandleUserCorrection(transaction_index, correct_category, place) ==
    IF transaction_index >= Len(categorized_transactions)
    THEN CorrectionRefused(400, InvalidTransactionIndex)
    ELSE IF place = 0 THEN CorrectionRefused(500, CorrectionFailed)
    ELSE CorrectionApplied(transaction_index, place, correct_category,
                           WithCategory(categorized_transactions, place,
                                        correct_category))

\* POST /api/v1/correct-transaction
CorrectTransactionCategory ==
    /\ uploaded' = None
    /\ validation' = None
    /\ HistoryRoom
    /\ Len(session.user_corrections) < MaxCorrections
    /\ \E transaction_index \in TransactionIndexes, correct_category \in Categories :
          /\ index_arg' = Some(transaction_index)
          /\ HandleUserCorrection(transaction_index, correct_category,
                                  ListPlace(transaction_index,
                                            Len(categorized_transactions)))
    /\ UNCHANGED <<current_transactions, last_insights,
                   categorized_since_reset, fileVars, mapperVars, dateVars>>

\* FileProcessor.validate_file, called on its own
CallValidateFile ==
    /\ \E name \in UploadNames, file_size \in FileSizes :
          /\ uploaded' = Some([filename |-> name, file_size |-> file_size])
          /\ validation' = Some(ValidateFile(file_size, name))
    /\ response' = NoResponse
    /\ index_arg' = None
    /\ agents_called' = {}
    /\ UNCHANGED <<current_transactions, categorized_transactions,
                   category_summary, last_insights, session,
                   categorized_since_reset, fileVars, mapperVars, dateVars>>

InitService ==
    /\ FileIdle
    /\ MapperIdle
    /\ ServiceIdle
    /\ DateIdle

NextService ==
    \/ UploadBankStatement
    \/ CategorizeTransactions
    \/ GenerateInsights
    \/ ResetSession
    \/ GetCurrentTransactions
    \/ CorrectTransactionCategory

SpecService == InitService /\ [][NextService]_vars

\* the uploads, with the calls of validate_file on its own
NextUpload ==
    \/ UploadBankStatement
    \/ CallValidateFile
    \/ CategorizeTransactions
    \/ ResetSession

SpecUpload == InitService /\ [][NextUpload]_vars

(***************************************************************************)
(* The date normalizer on its own: one call of _parse_date for a string.   *)
(***************************************************************************)
\* the numbers written in the first two places of the date strings
DateNumbers == {<<"0","1">>, <<"0","2">>, <<"1","2">>, <<"1","3">>, <<"2","9">>, <<"3","1">>}

\* the years written in the date strings
DateYears == {<<"2","0","2","3">>, <<"2","0","2","4">>, <<"2","4">>}

\* the numeric date strings: two numbers and a year
NumericDateStrings ==
    {first \o <<sep>> \o second \o <<sep>> \o year :
        first \in DateNumbers, second \in DateNumbers, year \in DateYears,
        sep \in {"/", "-", "."}}

\* the date strings given to _parse_date
DateStrings ==
    NumericDateStrings
    \cup {<<"2","0","2","4","-","0","1","-","0","5">>, <<"0","5"," ","J","a","n"," ","2","0","2","4">>, <<"0","5","-","J","a","n","-","2","0","2","4">>, <<"0","5"," ","J","a","n","u","a","r","y"," ","2","0","2","4">>,
          <<" ","0","5","/","0","4","/","2","0","2","4"," ">>, <<"(","0","5","/","0","4","/","2","0","2","4",")">>, <<"0","5"," ","0","4"," ","2","0","2","4">>, <<"n","/","a">>, <<"a","b","c">>,
          <<" "," "," ">>, <<>>}

InitDates ==
    /\ FileIdle
    /\ MapperIdle
    /\ ServiceIdle
    /\ date_arg \in DateStrings
    /\ date_ret = None
    /\ date_pc = "call"

\* parsed_date = self._parse_date(date_str)
CallParseDate ==
    /\ date_pc = "call"
    /\ date_ret' = ParseDate(date_arg)
    /\ date_pc' = "done"
    /\ UNCHANGED <<date_arg, fileVars, mapperVars, serviceVars>>

NextDates == CallParseDate

SpecDates == InitDates /\ [][NextDates]_vars

(***************************************************************************)
(* Properties of process_file and of the column mappers                    *)
(***************************************************************************)
\* the indices of the outcomes recorded so far
OutcomeIndices == 1..Len(outcomes)

\* whether the row of an outcome has a column for a role: a header name in
\* the csv and Excel pipelines, a column index in a PDF table
RoleMapped(o, role) ==
    IF o.parser = "table" THEN ~IsNone(o.mapping[role])
    ELSE Mapped(o.mapping, role)

\* the number the cell of a role parses to in the row of an outcome
RoleAmount(o, role) ==
    IF o.parser = "table"
    THEN AmountAt(RowAmounts(o.source), Val(o.mapping[role]))
    ELSE CellAmount(DictGet(o.source, Val(o.mapping[role]), NoneCell))

\* the outcome of a row of a tabular parser whose date was parsed
TabularRow(o) ==
    o.parser \in {"rows", "df", "table"} /\ ~IsNone(o.parsed_date)

\* the row has a debit and a credit column
HasPair(o) == RoleMapped(o, "debit") /\ RoleMapped(o, "credit")

\* the brought-forward marker is in the description of the candidate or in
\* the text line it was read from
BroughtForwardMarked(o) ==
    \/ Contains(StrUpper(o.description), <<"B","/","F">>)
    \/ o.parser \in {"text", "block"} /\ Contains(StrUpper(o.source), <<"B","/","F">>)

(***************************************************************************)
(* C1                                                                      *)
(***************************************************************************)
\* C1: every transaction in the list process_file builds and returns has
\* its amount absent exactly when its type is absent, and a present amount
\* is greater than 0 with a type that is debit or credit.
C1AmountAndDirection ==
    \A i \in 1..Len(transactions) :
        /\ IsNone(transactions[i].amount) <=> IsNone(transactions[i].type)
        /\ ~IsNone(transactions[i].amount) =>
              /\ Val(transactions[i].amount) > 0
              /\ Val(transactions[i].type) \in {"debit", "credit"}

\* a call has returned a debit and a credit, and has rejected a candidate
\* whose amount was absent while its type was not
C1Witness ==
    /\ status = "returned"
    /\ \E i \in 1..Len(transactions) : transactions[i].type = Some("debit")
    /\ \E i \in 1..Len(transactions) : transactions[i].type = Some("credit")
    /\ \E k \in OutcomeIndices :
          /\ outcomes[k].gated
          /\ IsNone(outcomes[k].amount)
          /\ ~IsNone(outcomes[k].txn_type)
          /\ IsNone(outcomes[k].txn)

(***************************************************************************)
(* C2                                                                      *)
(***************************************************************************)
\* C2: a brought-forward entry is never dropped: a candidate with a valid
\* date, the B/F marker and no non-zero amount comes out of the gate as one
\* transaction with amount absent, type absent and the balance set.
C2BroughtForwardKept ==
    \A k \in OutcomeIndices :
        (/\ ~IsNone(outcomes[k].parsed_date)
         /\ BroughtForwardMarked(outcomes[k])
         /\ outcomes[k].gated
         /\ (IsNone(outcomes[k].amount) \/ Val(outcomes[k].amount) = 0))
        => /\ ~IsNone(outcomes[k].txn)
           /\ IsNone(Val(outcomes[k].txn).amount)
           /\ IsNone(Val(outcomes[k].txn).type)
           /\ ~IsNone(Val(outcomes[k].txn).balance)

(***************************************************************************)
(* C3                                                                      *)
(***************************************************************************)
\* the file was read: a PDF that PyPDF2 opens, or a csv file or sheet with
\* data rows and a date column
ReadSuccessfully ==
    \/ "pdf" \in pipelines /\ Pypdf2Reads
    \/ /\ pipelines \cap {"csv", "excel"} # {}
       /\ rows # <<>>
       /\ Mapped(column_mapping, "date")

\* C3 as stated: in every pipeline a file that is read and yields zero
\* transactions makes process_file return the empty list, not raise.
C3EmptyIsSuccess ==
    (pc = "done" /\ transactions = <<>> /\ ReadSuccessfully)
    => status = "returned"

\* C3 as the code has it: a csv file or sheet with data rows and a date
\* column that yields zero transactions makes process_file return the empty
\* list; a PDF that yields zero transactions makes process_file raise
\* "Could not extract transaction data from PDF".
C3EmptyTabularReturnsPdfRaises ==
    (pc = "done" /\ transactions = <<>>)
    => /\ (rows # <<>> /\ Mapped(column_mapping, "date")) => status = "returned"
       /\ "pdf" \in pipelines =>
             status = "raised" /\ error = PdfExtractionFailed

\* a csv file with a date column whose only rows are skipped has returned
\* the empty list
C3Witness ==
    /\ pc = "done"
    /\ "csv" \in pipelines
    /\ Len(rows) = MaxRows
    /\ Len(outcomes) = MaxRows
    /\ Mapped(column_mapping, "date")
    /\ transactions = <<>>
    /\ status = "returned"

(***************************************************************************)
(* C4                                                                      *)
(***************************************************************************)
\* the functions of each pipeline
CsvFunctions ==
    {"_process_csv", "_extract_transactions_from_rows",
     "_process_csv_with_pandas", "_extract_transactions_from_dataframe"}

ExcelFunctions == {"_process_excel", "_extract_transactions_from_dataframe"}

PdfFunctions ==
    {"_process_pdf", "_process_pdf_with_pdfplumber", "_process_pdf_with_pypdf2"}

\* the extension of the uploaded file's name, lowered
LoweredExtension == StrLower(PathSuffix(filename))

\* C4: once process_file has dispatched, the lowered extension alone tells
\* the pipeline: .csv only the csv functions, .xlsx and .xls only the Excel
\* ones, .pdf only the PDF ones, and with any other extension no pipeline is
\* entered and the call has raised the unsupported-file-type error.
C4DispatchByExtension ==
    pc \notin {"process_file", "idle"} =>
        IF LoweredExtension = <<".","c","s","v">>
            THEN pipelines = {"csv"} /\ pc \in CsvFunctions \cup {"done"}
        ELSE IF LoweredExtension \in {<<".","x","l","s","x">>, <<".","x","l","s">>}
            THEN pipelines = {"excel"} /\ pc \in ExcelFunctions \cup {"done"}
        ELSE IF LoweredExtension = <<".","p","d","f">>
            THEN pipelines = {"pdf"} /\ pc \in PdfFunctions \cup {"done"}
        ELSE /\ pipelines = {}
             /\ pc = "done"
             /\ status = "raised"
             /\ error = UnsupportedFileType

\* a file named with an upper-case extension went through the csv pipeline
C4Witness ==
    /\ filename = <<"b",".","C","S","V">>
    /\ pc = "done"
    /\ pipelines = {"csv"}
    /\ status = "returned"
    /\ transactions # <<>>

(***************************************************************************)
(* C5                                                                      *)
(***************************************************************************)
\* C5: a csv file or sheet with data rows in which no date column is found,
\* by header or by the values of the first rows, ends process_file with an
\* error that names the date column, not with a result.
C5NoDateColumnError ==
    (/\ pc = "done"
     /\ pipelines \cap {"csv", "excel"} # {}
     /\ rows # <<>>
     /\ ~Mapped(column_mapping, "date"))
    => status = "raised" /\ error = ExcelNoDateColumn

(***************************************************************************)
(* C6                                                                      *)
(***************************************************************************)
\* no column is given to two roles by a mapping
CollisionFree(role_mapping) ==
    \A r1 \in RoleSet : \A r2 \in RoleSet :
        (/\ r1 # r2
         /\ ~IsNone(role_mapping[r1])
         /\ ~IsNone(role_mapping[r2]))
        => role_mapping[r1] # role_mapping[r2]

\* C6: for every header list the role map of _map_columns and the role map
\* of _map_table_columns give no column to two different roles.
C6CollisionFree == CollisionFree(mapping) /\ CollisionFree(table_mapping)

(***************************************************************************)
(* C7                                                                      *)
(***************************************************************************)
\* the score of each header of a list for a role
RoleScores(role, headers) ==
    List([i \in 1..Len(headers) |->
             ColumnScore(role, NormalizeColumn(headers[i]))])

\* the highest of the scores
BestScore(scores) == SetMax({0} \cup {scores[i] : i \in 1..Len(scores)})

\* exactly one header has the highest score, and it is positive
UniqueBest(scores) ==
    /\ BestScore(scores) > 0
    /\ Cardinality({i \in 1..Len(scores) : scores[i] = BestScore(scores)}) = 1

\* C7 as stated: for every header list and every order of it, _map_columns
\* binds each role to the same header.
C7OrderIndependent ==
    mapper_pc = "done" =>
        \A r \in RoleSet : permuted_mapping[r] = mapping[r]

\* C7 as the code has it: for every header list and every order of it, a
\* role is mapped in one order exactly when it is mapped in the other, and
\* a role for which exactly one header reaches the highest positive score
\* is bound to that same header in both orders.
C7OrderIndependentUniqueBest ==
    mapper_pc = "done" =>
        \A r \in RoleSet :
            /\ Mapped(mapping, r) <=> Mapped(permuted_mapping, r)
            /\ UniqueBest(RoleScores(r, columns)) =>
                  permuted_mapping[r] = mapping[r]

\* a list in another order, with a role whose one best header is not the
\* first header of either order that scores for it
C7Witness ==
    /\ mapper_pc = "done"
    /\ permuted # columns
    /\ \E r \in RoleSet :
          /\ UniqueBest(RoleScores(r, columns))
          /\ permuted_mapping[r] = mapping[r]
          /\ RoleScores(r, columns)[1] > 0
          /\ mapping[r] # Some(columns[1])
          /\ RoleScores(r, permuted)[1] > 0
          /\ mapping[r] # Some(permuted[1])

(***************************************************************************)
(* C8                                                                      *)
(***************************************************************************)
\* the words the single amount rule is stated with
StatedCreditWords == {<<"d","e","p","o","s","i","t">>, <<"c","r","e","d","i","t">>, <<"s","a","l","a","r","y">>, <<"t","r","a","n","s","f","e","r"," ","i","n">>}

\* the single amount rule for one row
SingleAmountRule(o) ==
    (TabularRow(o) /\ RoleMapped(o, "amount") /\ ~HasPair(o))
    => /\ RoleAmount(o, "amount") < 0 =>
             /\ o.amount = Some(0 - RoleAmount(o, "amount"))
             /\ o.txn_type = Some("debit")
       /\ RoleAmount(o, "amount") > 0 =>
             /\ o.amount = Some(RoleAmount(o, "amount"))
             /\ o.txn_type =
                   Some(IF AnyIn(StatedCreditWords, StrLower(o.description))
                        THEN "credit" ELSE "debit")

\* C8: in every tabular row parser a row with an amount column and no
\* debit/credit pair gives, for a negative value, a debit of the absolute
\* value, and for a positive value a credit exactly when the description
\* has one of deposit, credit, salary, transfer in, and a debit otherwise.
C8SingleAmountColumn ==
    \A k \in OutcomeIndices : SingleAmountRule(outcomes[k])

(***************************************************************************)
(* C9                                                                      *)
(***************************************************************************)
\* the pair rule as stated, for one row
PairRuleNonZero(o) ==
    (TabularRow(o) /\ HasPair(o))
    => IF RoleAmount(o, "debit") # 0
           THEN /\ o.amount = Some(RoleAmount(o, "debit"))
                /\ o.txn_type = Some("debit")
       ELSE IF RoleAmount(o, "credit") # 0
           THEN /\ o.amount = Some(RoleAmount(o, "credit"))
                /\ o.txn_type = Some("credit")
       ELSE IsNone(o.txn)

\* the pair rule of the code, for one row
PairRulePositive(o) ==
    (TabularRow(o) /\ HasPair(o))
    => IF RoleAmount(o, "debit") > 0
           THEN /\ o.amount = Some(RoleAmount(o, "debit"))
                /\ o.txn_type = Some("debit")
       ELSE IF RoleAmount(o, "credit") > 0
           THEN /\ o.amount = Some(RoleAmount(o, "credit"))
                /\ o.txn_type = Some("credit")
       ELSE IsNone(o.txn)

\* C9 as stated: with a debit and a credit column the row gives (debit
\* value, debit) when the debit cell is non-zero, else (credit value,
\* credit) when the credit cell is non-zero, else no transaction.
C9PairNonZero ==
    \A k \in OutcomeIndices : PairRuleNonZero(outcomes[k])

\* C9 as the code has it: with a debit and a credit column the row gives
\* (debit value, debit) when the debit cell parses to a positive number,
\* else (credit value, credit) when the credit cell parses to a positive
\* number, else no transaction.
C9PairPositive ==
    \A k \in OutcomeIndices : PairRulePositive(outcomes[k])

\* a csv row with a negative debit cell and a positive credit cell came out
\* as a credit, and a row with a positive debit cell as a debit
C9Witness ==
    /\ status = "returned"
    /\ \E k \in OutcomeIndices :
          /\ outcomes[k].parser = "rows"
          /\ HasPair(outcomes[k])
          /\ RoleAmount(outcomes[k], "debit") < 0
          /\ RoleAmount(outcomes[k], "credit") > 0
          /\ outcomes[k].txn_type = Some("credit")
          /\ ~IsNone(outcomes[k].txn)
    /\ \E k \in OutcomeIndices :
          /\ HasPair(outcomes[k])
          /\ RoleAmount(outcomes[k], "debit") > 0
          /\ outcomes[k].txn_type = Some("debit")
          /\ ~IsNone(outcomes[k].txn)

(***************************************************************************)
(* C10                                                                     *)
(***************************************************************************)
\* the gate rejected the candidate: no date, or an amount of 0 or less
Rejected(o) ==
    /\ o.gated
    /\ \/ IsNone(o.parsed_date)
       \/ ~IsNone(o.amount) /\ Val(o.amount) <= 0

\* C10: a candidate the gate is given with no date or with an amount that
\* is zero or negative gives no transaction; the list of the call holds
\* the transactions of the other candidates and nothing else; and a call
\* that went through the rows of a csv file or sheet has read every row
\* and returned.
C10GateRejectsSilently ==
    /\ \A k \in OutcomeIndices : Rejected(outcomes[k]) => IsNone(outcomes[k].txn)
    /\ transactions = Transactions(outcomes)
    /\ (/\ pc = "done"
        /\ pipelines \cap {"csv", "excel"} # {}
        /\ rows # <<>>
        /\ Mapped(column_mapping, "date"))
       => status = "returned" /\ Len(outcomes) = Len(rows)

\* a candidate with amount 0.00 was rejected by the gate and the line after
\* it gave a transaction that was returned
C10Witness ==
    /\ status = "returned"
    /\ \E k \in OutcomeIndices :
          /\ k < Len(outcomes)
          /\ outcomes[k].gated
          /\ outcomes[k].amount = Some(0)
          /\ IsNone(outcomes[k].txn)
          /\ ~IsNone(outcomes[k + 1].txn)
          /\ \E i \in 1..Len(transactions) :
                Some(transactions[i]) = outcomes[k + 1].txn

(***************************************************************************)
(* C11                                                                     *)
(***************************************************************************)
\* the outcomes of the line loop of _extract_transactions_from_text_enhanced
\* (the structured patterns) for a page text
StructuredOutcomes(text) ==
    TextLines(SplitOn(PreprocessMultilineTransactions(text), "\n"), 1)

\* PyPDF2 has read the first page of the file, and only that page
FirstPageRead ==
    /\ pc = "_process_pdf_with_pypdf2"
    /\ idx = 2
    /\ content.pages[1].text # <<>>

\* C11: the result of the text extraction of a page is the output of the
\* first strategy that gave a transaction: when the structured patterns give
\* at least one transaction for the page, the page's transactions are
\* exactly theirs and none comes from the block scan.
C11FirstProducingStrategy ==
    (FirstPageRead
     /\ Transactions(StructuredOutcomes(content.pages[1].text)) # <<>>)
    => /\ transactions = Transactions(StructuredOutcomes(content.pages[1].text))
       /\ \A k \in OutcomeIndices : outcomes[k].parser = "text"

(***************************************************************************)
(* C12                                                                     *)
(***************************************************************************)
\* one turn of the page loop of _process_pdf_with_pdfplumber
PdfplumberPageStep ==
    /\ pc = "_process_pdf_with_pdfplumber"
    /\ pc' = "_process_pdf_with_pdfplumber"
    /\ idx' = idx + 1

\* the outcomes the step has added
NewOutcomes == SubSeq(outcomes', Len(outcomes) + 1, Len(outcomes'))

\* the outcomes of the tables of the page of the step
StepTableOutcomes == PageTableOutcomes(content.pages[idx].tables, 1)

\* an outcome of the text extraction that gave a transaction
TextDerived(o) == o.parser \in {"text", "block"} /\ ~IsNone(o.txn)

\* an outcome of a table row that gave a transaction
TableDerived(o) == o.parser = "table" /\ ~IsNone(o.txn)

PrimaryEnds ==
    /\ pc = "_process_pdf_with_pdfplumber"
    /\ idx > Len(content.pages)

\* PyPDF2 could not open the file, or has read every page: the secondary
\* backend is at its end
SecondaryEnds ==
    /\ pc = "_process_pdf_with_pypdf2"
    /\ ~(content.kind = "pdf" /\ content.pypdf2_ok) \/ idx > Len(content.pages)

\* the step enters the secondary backend
SecondaryStarts ==
    /\ pc # "_process_pdf_with_pypdf2"
    /\ pc' = "_process_pdf_with_pypdf2"

\* the call returns the list it holds
ReturnsList ==
    /\ pc' = "done"
    /\ status' = "returned"
    /\ transactions' = transactions

\* C13: _process_pdf runs PyPDF2 exactly when pdfplumber raised or returned
\* no transaction over all pages; when pdfplumber returns at least one
\* transaction its list is the result and PyPDF2 is not run; when PyPDF2 in
\* its turn raises or returns nothing, the call fails with the error that
\* no transaction data could be extracted, and else returns PyPDF2's list.
C13BackendFallback ==
    [][/\ pc = "_process_pdf" =>
            pc' = IF content.kind = "pdf" /\ content.pdfplumber_ok
                  THEN "_process_pdf_with_pdfplumber"
                  ELSE "_process_pdf_with_pypdf2"
       /\ PrimaryEnds =>
            IF transactions # <<>>
            THEN ReturnsList
            ELSE SecondaryStarts /\ status' = "running" /\ transactions' = <<>>
       /\ SecondaryStarts =>
            \/ pc = "_process_pdf" /\ ~(content.kind = "pdf" /\ content.pdfplumber_ok)
            \/ PrimaryEnds /\ transactions = <<>>
       /\ SecondaryEnds =>
            IF content.kind = "pdf" /\ content.pypdf2_ok /\ transactions # <<>>
            THEN ReturnsList
            ELSE pc' = "done" /\ status' = "raised" /\ error' = PdfExtractionFailed
      ]_vars

\* pdfplumber read every page of a file and found no transaction, PyPDF2
\* then read it and found none either, and the call has raised
C13Witness ==
    /\ pc = "done"
    /\ "pdf" \in pipelines
    /\ content.kind = "pdf" /\ content.pdfplumber_ok /\ content.pypdf2_ok
    /\ \E p \in 1..Len(content.pages) : content.pages[p].text # <<>>
    /\ status = "raised"
    /\ error = PdfExtractionFailed
    /\ transactions = <<>>

(***************************************************************************)
(* C14                                                                     *)
(***************************************************************************)
\* the rows csv.DictReader gives for the file under the d-th delimiter
RowsUnder(d) == DictReader(content.text, Delimiters[d])

\* under the d-th delimiter there is a first data row and it has more than
\* one column
FirstRowWide(d) == RowsUnder(d) # <<>> /\ Len(RowsUnder(d)[1]) > 1

\* under the d-th delimiter some data row has more than one column
SomeRowWide(d) == \E r \in 1..Len(RowsUnder(d)) : Len(RowsUnder(d)[r]) > 1

\* the delimiters are "," ";" tab and "|", in this order
DelimiterOrder == Delimiters = <<",", ";", "\t", "|">>

\* the step of _process_csv goes on with the rows of the first delimiter of
\* the set, and with pandas if the set is empty
GoesOnWithFirstOf(accepted) ==
    IF accepted = {}
    THEN pc' = "_process_csv_with_pandas"
    ELSE /\ pc' # "_process_csv_with_pandas"
         /\ rows' = CleanRows(RowsUnder(SetMin(accepted)))

\* C14 as stated: _process_csv tries comma, semicolon, tab and pipe in this
\* order and uses the first delimiter under which at least one row has more
\* than one column; the pandas reader is run only if there is none.
C14AnyRowAccepts ==
    [][pc = "_process_csv" =>
        /\ DelimiterOrder
        /\ GoesOnWithFirstOf({d \in 1..Len(Delimiters) : SomeRowWide(d)})
      ]_vars

\* C14, amended: _process_csv tries comma, semicolon, tab and pipe in this
\* order and uses the first delimiter under which there is a data row and
\* the first data row has more than one column; a later delimiter is tried
\* only if the earlier ones were not accepted, and the pandas reader is run
\* only if no delimiter was accepted.
C14FirstRowAccepts ==
    [][pc = "_process_csv" =>
        /\ DelimiterOrder
        /\ GoesOnWithFirstOf({d \in 1..Len(Delimiters) : FirstRowWide(d)})
      ]_vars

\* the semicolon was taken for a file whose first data row has one column
\* under the comma and whose second has two
C14Witness ==
    /\ pc = "_extract_transactions_from_rows"
    /\ "csv" \in pipelines
    /\ ~FirstRowWide(1)
    /\ SomeRowWide(1)
    /\ FirstRowWide(2)
    /\ rows = CleanRows(RowsUnder(2))

(***************************************************************************)
(* C15                                                                     *)
(***************************************************************************)
\* the call for the semicolon-delimited statement with decimal commas, under
\* a csv name, is over
DecimalCommaDone ==
    /\ content = DecimalCommaStatement
    /\ "csv" \in pipelines
    /\ pc = "done"

\* C15: the semicolon-delimited file with the header
\* Date;Narration;Debit;Credit;Balance and the row
\* 01-01-2024;ATM WITHDRAWAL;500,00;;12450,00 gives exactly one
\* transaction: 2024-01-01, "ATM WITHDRAWAL", amount 500.00, debit,
\* balance 12450.00.
C15DecimalCommaRow ==
    DecimalCommaDone =>
        /\ status = "returned"
        /\ Len(transactions) = 1
        /\ transactions[1].transaction_date = Val(MakeDate(Some(2024), Some(1), Some(1)))
        /\ transactions[1].description = <<"A","T","M"," ","W","I","T","H","D","R","A","W","A","L">>
        /\ transactions[1].amount = Some(50000)
        /\ transactions[1].type = Some("debit")
        /\ transactions[1].balance = Some(1245000)

(***************************************************************************)
(* C16                                                                     *)
(***************************************************************************)
\* a is b without some of its elements, in the order of b
RECURSIVE IsSubseq(_, _)
IsSubseq(a, b) ==
    IF a = <<>> THEN TRUE
    ELSE IF b = <<>> THEN FALSE
    ELSE IF a[1] = b[1] THEN IsSubseq(Tail(a), Tail(b))
    ELSE IsSubseq(a, Tail(b))

\* the rows or lines the outcomes came from
SourcesOf(outs) == [k \in 1..Len(outs) |-> outs[k].source]

\* the rows or lines the transactions of the outcomes came from, in the
\* order of the outcomes
TransactionSources(outs) ==
    SourcesOf(SelectSeq(outs, LAMBDA o : ~IsNone(o.txn)))

\* the rows of the tables of a page, table after table, from table t on
RECURSIVE RowsOfTables(_, _)
RowsOfTables(tables, t) ==
    IF t > Len(tables) THEN <<>>
    ELSE tables[t] \o RowsOfTables(tables, t + 1)

\* the lines of a page text, continuation lines joined to the dated line
\* before them
LinesOfText(text) == SplitOn(PreprocessMultilineTransactions(text), "\n")

\* the blocks of a page text, each from a dd-mm-yyyy date to the next
BlocksOfText(text, starts) ==
    [i \in 1..Len(starts) |->
        StrStrip(SubSeq(text, starts[i],
                        IF i < Len(starts) THEN starts[i + 1] - 1 ELSE Len(text)))]

\* the transactions of the outcomes come from the rows of the tables, in
\* their order, or from the lines or from the blocks of the text, in theirs
InPageOrder(outs, page) ==
    \/ IsSubseq(TransactionSources(outs), RowsOfTables(page.tables, 1))
    \/ IsSubseq(TransactionSources(outs), LinesOfText(page.text))
    \/ IsSubseq(TransactionSources(outs),
                BlocksOfText(page.text, DateMatches(page.text, 1)))

\* one turn of a row loop
RowStep ==
    /\ pc \in {"_extract_transactions_from_rows",
               "_extract_transactions_from_dataframe"}
    /\ idx' = idx + 1

\* one turn of a page loop
PageStep ==
    /\ pc \in {"_process_pdf_with_pdfplumber", "_process_pdf_with_pypdf2"}
    /\ pc' = pc
    /\ idx' = idx + 1

\* C16: the list of transactions is in source order and only grows at its
\* end: every step keeps the transactions appended so far, unchanged and in
\* place; a turn of a row loop appends at most the transaction of the row
\* it is at; a turn of a page loop appends the transactions of the page it
\* is at, in the order of the page's tables and their rows, or of the lines
\* of its text; rows and pages are visited in increasing order; and the
\* list returned is the list so built.
C16SourceOrder ==
    [][/\ Len(transactions') >= Len(transactions)
       /\ SubSeq(transactions', 1, Len(transactions)) = transactions
       /\ transactions' = transactions \o Transactions(NewOutcomes)
       /\ RowStep => IsSubseq(TransactionSources(NewOutcomes), <<rows[idx]>>)
       /\ PageStep => InPageOrder(NewOutcomes, content.pages[idx])
       /\ idx' # idx => idx' = idx + 1 \/ (idx' = 1 /\ transactions' = <<>>)
       /\ pc' = "done" => transactions' = transactions
      ]_vars

\* pdfplumber has returned the transactions of two different pages, those
\* of the first page before those of the second
C16Witness ==
    /\ status = "returned"
    /\ "pdf" \in pipelines
    /\ content.pdfplumber_ok
    /\ Len(content.pages) = 2
    /\ Transactions(PdfplumberPage(content.pages[1])) # <<>>
    /\ Len(Transactions(PdfplumberPage(content.pages[2]))) >= 2
    /\ Transactions(PdfplumberPage(content.pages[1]))
          # Transactions(PdfplumberPage(content.pages[2]))
    /\ transactions = Transactions(PdfplumberPage(content.pages[1]))
                         \o Transactions(PdfplumberPage(content.pages[2]))

(***************************************************************************)
(* C17                                                                     *)
(***************************************************************************)
\* the cell of column index i (from 0) of a table row parses as a positive
\* number
PositiveCell(row, i) == i < Len(row) /\ CellAmount(row[i + 1]) > 0

\* the column a table row's amount is taken from, given the role map: the
\* debit or else the credit column when both are mapped, else the amount
\* column; None if no mapped column gives the amount
ConsumedColumn(row, m) ==
    IF ~IsNone(m["debit"]) /\ ~IsNone(m["credit"])
    THEN IF PositiveCell(row, Val(m["debit"])) THEN m["debit"]
         ELSE IF PositiveCell(row, Val(m["credit"])) THEN m["credit"]
         ELSE None
    ELSE IF ~IsNone(m["amount"]) /\ Val(m["amount"]) < Len(row)
              /\ CellAmount(row[Val(m["amount"]) + 1]) # 0
         THEN m["amount"]
    ELSE None

\* the value of the right-most of the cells of the set, if any
RightmostOf(row, cells) ==
    IF cells = {} THEN None ELSE Some(CellAmount(row[SetMax(cells) + 1]))

\* the right-most cell that parses as a positive number, the consumed
\* column left out
RightmostPositiveExcept(row, consumed) ==
    RightmostOf(row, {i \in 0..(Len(row) - 1) : i # consumed /\ PositiveCell(row, i)})

\* a transaction of a table row without a mapped balance column whose
\* amount came from a mapped column
UnmappedBalanceRow(o) ==
    /\ o.parser = "table"
    /\ ~IsNone(o.txn)
    /\ IsNone(o.mapping["balance"])
    /\ ~IsNone(ConsumedColumn(o.source, o.mapping))

\* C17: in a table row with no mapped balance column the balance is the
\* right-most cell that parses as a positive number, other than the cell
\* consumed as the amount; it is never taken from the column of the amount.
C17BalanceNotAmountCell ==
    \A k \in OutcomeIndices :
        UnmappedBalanceRow(outcomes[k]) =>
            outcomes[k].txn[1].balance =
                RightmostPositiveExcept(outcomes[k].source,
                    Val(ConsumedColumn(outcomes[k].source, outcomes[k].mapping)))

(***************************************************************************)
(* C18                                                                     *)
(***************************************************************************)
\* the sheet pd.read_excel gives for a header row and a grid of data rows,
\* its columns cleaned
SheetOf(header_row, data_rows) ==
    CleanColumns(DataFrame(SheetColumns(header_row, data_rows), data_rows))

\* the transactions of the row loop of _extract_transactions_from_dataframe
\* from row i on
RECURSIVE DataframeTransactions(_, _, _)
DataframeTransactions(frame_rows, frame_mapping, i) ==
    IF i > Len(frame_rows) THEN <<>>
    ELSE DfParseRow(frame_rows[i], frame_mapping).txn
            \o DataframeTransactions(frame_rows, frame_mapping, i + 1)

\* _process_excel fails for the sheet: it is empty or has no date column
ExcelFails(df) ==
    \/ df.rows = <<>>
    \/ df.columns = <<>>
    \/ ~Mapped(MapColumns(df.columns), "date")

\* what _process_excel returns for the sheet
ExcelReturns(df) == DataframeTransactions(df.rows, MapColumns(df.columns), 1)

\* the call for the comma-delimited csv file of a header row and a grid of
\* data rows, under a csv name, is over
CsvDoneFor(header_row, data_rows) ==
    /\ pc = "done"
    /\ "csv" \in pipelines
    /\ content.kind = "csv"
    /\ content.text = CsvText(",", header_row, data_rows)

\* the call has the outcome _process_excel has for the sheet: both fail, or
\* both return the same transactions
SameOutcomeAsExcel(df) ==
    IF ExcelFails(df) THEN status = "raised"
    ELSE status = "returned" /\ transactions = ExcelReturns(df)

\* C18: the Excel pipeline and the csv pipeline give the same outcome for
\* the same header row and the same grid of cell values: the same sequence
\* of transactions, or a failure in both, also when no header maps to the
\* date role.
C18SameOutcome ==
    \A header_row \in HeaderRows :
        \A data_rows \in SeqsUpTo(DataRows, MaxRows) :
            CsvDoneFor(header_row, data_rows)
                => SameOutcomeAsExcel(SheetOf(header_row, data_rows))

(***************************************************************************)
(* C19                                                                     *)
(***************************************************************************)
\* the step answers a request to categorize-transactions made while no
\* transactions are loaded
CategorizeWithoutTransactions ==
    /\ current_transactions = <<>>
    /\ response'.endpoint = "categorize-transactions"

\* C19: whenever no transactions are loaded, categorize-transactions answers
\* with success false and the message that no transactions are available,
\* calls no agent, and leaves the current transactions, the categorized
\* transactions, the category summary and the insights as they are, in the
\* team manager and in the session.
C19NoTransactionsNoAgent ==
    [][CategorizeWithoutTransactions =>
        /\ response'.status_code = 200
        /\ response'.success = Some(FALSE)
        /\ response'.message =
              "No transactions available for categorization. Please upload a file first."
        /\ agents_called' = {}
        /\ UNCHANGED <<current_transactions, categorized_transactions,
                       category_summary, last_insights, session>>
      ]_vars

\* categorize-transactions has been refused for want of transactions
C19Witness ==
    /\ current_transactions = <<>>
    /\ response.endpoint = "categorize-transactions"
    /\ response.success = Some(FALSE)
    /\ response.message = NoTransactionsAvailable
    /\ agents_called = {}
    /\ session = NewSession

(***************************************************************************)
(* C20                                                                     *)
(***************************************************************************)
\* the step answers a request to generate-insights made while there are no
\* categorized transactions
InsightsWithoutCategorized ==
    /\ categorized_transactions = <<>>
    /\ response'.endpoint = "generate-insights"

\* C20: whenever there are no categorized transactions, generate-insights
\* answers with HTTP status 200, success false and the message that no
\* categorized transactions are available; and an insights request
\* succeeds only if a categorization has succeeded since the last reset.
C20NoCategorizedNoInsights ==
    [][/\ InsightsWithoutCategorized =>
            /\ response'.status_code = 200
            /\ response'.success = Some(FALSE)
            /\ response'.message =
                  "No categorized transactions available. Please upload and categorize transactions first."
       /\ (response'.endpoint = "generate-insights" /\ response'.success = Some(TRUE))
            => categorized_since_reset
      ]_vars

(***************************************************************************)
(* C21                                                                     *)
(***************************************************************************)
\* the session holds empty lists, no insights and zeroed counters
SessionCleared(s) ==
    /\ s.transactions = <<>>
    /\ s.categorized_transactions = <<>>
    /\ s.category_summary = <<>>
    /\ s.insights = None
    /\ s.processing_history = <<>>
    /\ s.user_corrections = <<>>
    /\ s.session_stats.files_processed = 0
    /\ s.session_stats.transactions_categorized = 0
    /\ s.session_stats.insights_generated = 0
    /\ s.session_stats.corrections_made = 0

\* C21: from any reachable state reset-session answers with success and
\* leaves the team manager without current transactions, categorized
\* transactions, category summary and insights, and the default session
\* with empty lists and zeroed counters; a request to current-transactions
\* that follows the reset reports the total count 0.
C21ResetRestoresInitial ==
    [][/\ response'.endpoint = "reset-session" =>
            /\ response'.status_code = 200
            /\ response'.success = Some(TRUE)
            /\ current_transactions' = <<>>
            /\ categorized_transactions' = <<>>
            /\ category_summary' = <<>>
            /\ last_insights' = None
            /\ SessionCleared(session')
       /\ (response.endpoint = "reset-session"
             /\ response'.endpoint = "current-transactions") =>
            /\ response'.success = Some(TRUE)
            /\ response'.total_count = Some(0)
      ]_vars

\* reset-session has answered with success, and the team manager and the
\* session are cleared
C21Witness ==
    /\ response.endpoint = "reset-session"
    /\ response.success = Some(TRUE)
    /\ current_transactions = <<>>
    /\ categorized_transactions = <<>>
    /\ category_summary = <<>>
    /\ last_insights = None
    /\ SessionCleared(session)

(***************************************************************************)
(* C22                                                                     *)
(***************************************************************************)
\* the extension of a file name: what follows its last dot, in lower case,
\* and nothing when the name has no dot
ExtensionOf(name) ==
    IF \A i \in 1..Len(name) : name[i] # "." THEN <<>>
    ELSE StrLower(AfterLast(name, {i \in 1..Len(name) : name[i] = "."}))

\* the extension is one of csv, xlsx, xls and pdf
ExtensionAllowed(name) ==
    ExtensionOf(name) \in {<<"c","s","v">>, <<"x","l","s","x">>, <<"x","l","s">>, <<"p","d","f">>}

\* the step answers the upload of a file whose extension is not allowed
UploadOfUnsupportedType ==
    /\ response'.endpoint = "upload-statement"
    /\ ~ExtensionAllowed(Val(uploaded').filename)

\* C22: an upload whose file name has an extension that is not csv, xlsx,
\* xls or pdf is answered with status 422 before the file is validated or
\* processed, and the team manager and the session stay as they are; and
\* validate_file reports a file valid only if its extension is one of the
\* four, its size is at most the configured maximum and it is not empty.
C22UnsupportedTypeRejected ==
    [][/\ UploadOfUnsupportedType =>
            /\ response'.status_code = 422
            /\ validation' = None
            /\ UNCHANGED <<current_transactions, categorized_transactions,
                           category_summary, last_insights, session>>
       /\ (validation' # None /\ Val(validation').valid) =>
            /\ ExtensionAllowed(Val(uploaded').filename)
            /\ Val(uploaded').file_size <= MaxFileSizeBytes
            /\ Val(uploaded').file_size > 0
      ]_vars

\* a file of an unsupported type has been refused with status 422 by a
\* service that holds categorized transactions
C22Witness ==
    /\ response.endpoint = "upload-statement"
    /\ response.status_code = 422
    /\ uploaded # None
    /\ ~ExtensionAllowed(Val(uploaded).filename)
    /\ validation = None
    /\ categorized_transactions # <<>>
    /\ session.session_stats.files_processed = 1

(***************************************************************************)
(* C23                                                                     *)
(***************************************************************************)
\* the keywords of the vocabulary of a role
KeywordsOf(role) ==
    {ColumnMappings[role][j] : j \in 1..Len(ColumnMappings[role])}

\* the scoring policy for one keyword and one normalized header: the fixed
\* constant for equality, twice the length of a keyword the header
\* contains, the length of a header a keyword contains
ScoredByPolicy(keyword, header) ==
    /\ keyword = header => PatternScore(keyword, header) = ExactScore
    /\ (keyword # header /\ Contains(header, keyword)) =>
          /\ PatternScore(keyword, header) = 2 * Len(keyword)
          /\ PatternScore(keyword, header) < ExactScore
    /\ (keyword # header /\ ~Contains(header, keyword) /\ Contains(keyword, header)) =>
          /\ PatternScore(keyword, header) = Len(header)
          /\ PatternScore(keyword, header) < ExactScore
    /\ (~Contains(header, keyword) /\ ~Contains(keyword, header)) =>
          PatternScore(keyword, header) = 0

\* the first header of the list that has the highest score
FirstOfBest(headers, scores) ==
    headers[SetMin({i \in 1..Len(headers) : scores[i] = BestScore(scores)})]

\* a role some header scores for is bound to the first header of the
\* highest score
HighestScoreWins(role) ==
    BestScore(RoleScores(role, columns)) > 0 =>
        mapping[role] = Some(FirstOfBest(columns, RoleScores(role, columns)))

\* every header of the list is scored by the policy, for every keyword
PolicyScores ==
    \A r \in RoleSet : \A keyword \in KeywordsOf(r) : \A i \in 1..Len(columns) :
        ScoredByPolicy(keyword, NormalizeColumn(columns[i]))

\* C23 as stated: _map_columns scores every header by the policy, binds
\* each role to the first header of its highest positive score, and leaves
\* every role no header scores for unmapped.
C23HighestScoreOrUnmapped ==
    mapper_pc = "_map_columns" =>
        /\ PolicyScores
        /\ \A r \in RoleSet :
              /\ HighestScoreWins(r)
              /\ BestScore(RoleScores(r, columns)) = 0 => mapping[r] = None

\* C23 as the code has it: _map_columns scores every header by the policy
\* and binds each role to the first header of its highest positive score;
\* a role other than date that no header scores for stays unmapped, and a
\* date role that no header scores for is bound by the flexible search for
\* a date column.
C23HighestScoreOrFlexibleDate ==
    mapper_pc = "_map_columns" =>
        /\ PolicyScores
        /\ \A r \in RoleSet :
              /\ HighestScoreWins(r)
              /\ (BestScore(RoleScores(r, columns)) = 0 /\ r # "date") =>
                    mapping[r] = None
              /\ (BestScore(RoleScores(r, columns)) = 0 /\ r = "date") =>
                    mapping[r] = FlexibleDate(columns)

\* two headers reach the same highest score for a role and the first is
\* bound, a keyword contained in a header and a header contained in a
\* keyword have both scored, and a role is left unmapped
C23Witness ==
    /\ mapper_pc = "_map_columns"
    /\ \E r \in RoleSet :
          /\ BestScore(RoleScores(r, columns)) > 0
          /\ Cardinality({i \in 1..Len(columns) :
                RoleScores(r, columns)[i] = BestScore(RoleScores(r, columns))}) > 1
          /\ mapping[r] = Some(columns[1])
    /\ \E r \in RoleSet : \E keyword \in KeywordsOf(r) : \E i \in 1..Len(columns) :
          /\ keyword # columns[i]
          /\ Contains(columns[i], keyword)
          /\ RoleScores(r, columns)[i] = 2 * Len(keyword)
    /\ \E r \in RoleSet : \E keyword \in KeywordsOf(r) : \E i \in 1..Len(columns) :
          /\ keyword # columns[i]
          /\ Contains(keyword, columns[i])
          /\ RoleScores(r, columns)[i] = Len(columns[i])
    /\ \E r \in RoleSet : mapping[r] = None

(***************************************************************************)
(* C24                                                                     *)
(***************************************************************************)
\* the lines of a text, stripped
StrippedLines(text) == StripAll(SplitOn(text, "\n"))

\* the indices of a set, in increasing order
Increasing(indices, n) ==
    SelectSeq([i \in 1..n |-> i], LAMBDA i : i \in indices)

\* line i starts with a date token
DatedLine(lines, i) == StartsWithDate(lines[i])

\* line i is neither blank nor dated
PlainLine(lines, i) == lines[i] # <<>> /\ ~DatedLine(lines, i)

\* the dated lines
DatedLines(lines) == {i \in 1..Len(lines) : DatedLine(lines, i)}

\* the last dated line before line i (0: none)
DatedBefore(lines, i) == SetMax({0} \cup {d \in DatedLines(lines) : d < i})

\* line i continues line d: every line after d up to i is neither blank nor
\* dated
Continues(lines, d, i) ==
    d > 0 /\ d < i /\ \A k \in (d + 1)..i : PlainLine(lines, k)

\* the record a dated line starts: the line and the lines that continue it
RecordOf(lines, d) ==
    JoinWith(SubSeq(lines, d,
                    SetMax({d} \cup {i \in (d + 1)..Len(lines) : Continues(lines, d, i)})),
             <<" ">>)

\* the lines that start an output line: the dated lines, and the plain
\* lines that continue no dated line
Starters(lines) ==
    DatedLines(lines)
    \cup {i \in 1..Len(lines) :
            PlainLine(lines, i) /\ ~Continues(lines, DatedBefore(lines, i), i)}

\* the output lines: a record for a dated line, the line itself otherwise
MergedFrom(lines, starts) ==
    [k \in 1..Len(starts) |->
        IF DatedLine(lines, starts[k]) THEN RecordOf(lines, starts[k])
        ELSE lines[starts[k]]]

\* the output lines that are records
RecordsOf(out) == SelectSeq(out, StartsWithDate)

\* each dated line starts exactly one record, in the input order
OneRecordEach(lines, dated, records) ==
    /\ Len(records) = Len(dated)
    /\ \A j \in 1..Len(dated) : StartsWith(records[j], lines[dated[j]])

\* every plain line after a dated line is inside the record of the last
\* dated line before it
AllAppended(lines, dated, records) ==
    \A i \in 1..Len(lines) :
        (PlainLine(lines, i) /\ DatedBefore(lines, i) > 0) =>
            \E j \in 1..Len(dated) :
                /\ dated[j] = DatedBefore(lines, i)
                /\ j <= Len(records)
                /\ Contains(records[j], lines[i])

\* the text of page p has just gone through the text extraction of PyPDF2
TextPageRead(p) ==
    /\ pc = "_process_pdf_with_pypdf2"
    /\ p = idx - 1
    /\ content.pages[p].text # <<>>

\* C24 as stated: for every page text, each dated line starts exactly one
\* merged record, the records keep the input order, and every line that is
\* neither blank nor dated and comes after a dated line is inside the
\* record of the last dated line before it.
C24AllAppended ==
    \A p \in 1..Len(content.pages) :
        TextPageRead(p) =>
            /\ OneRecordEach(StrippedLines(content.pages[p].text),
                  Increasing(DatedLines(StrippedLines(content.pages[p].text)),
                             Len(StrippedLines(content.pages[p].text))),
                  RecordsOf(LinesOfText(content.pages[p].text)))
            /\ AllAppended(StrippedLines(content.pages[p].text),
                  Increasing(DatedLines(StrippedLines(content.pages[p].text)),
                             Len(StrippedLines(content.pages[p].text))),
                  RecordsOf(LinesOfText(content.pages[p].text)))

\* C24 as the code has it: for every page text, each dated line starts
\* exactly one merged record, made of the line and of the lines after it up
\* to the next blank or dated line; a line that is neither blank nor dated
\* and that a blank line separates from the last dated line stays a line of
\* its own; and the output keeps the input order.
C24AppendedUntilBlank ==
    \A p \in 1..Len(content.pages) :
        TextPageRead(p) =>
            /\ OneRecordEach(StrippedLines(content.pages[p].text),
                  Increasing(DatedLines(StrippedLines(content.pages[p].text)),
                             Len(StrippedLines(content.pages[p].text))),
                  RecordsOf(PreprocessLines(SplitOn(content.pages[p].text, "\n"), 1, <<>>)))
            /\ PreprocessLines(SplitOn(content.pages[p].text, "\n"), 1, <<>>)
                 = MergedFrom(StrippedLines(content.pages[p].text),
                      Increasing(Starters(StrippedLines(content.pages[p].text)),
                                 Len(StrippedLines(content.pages[p].text))))

\* a page text has been read in which a line continues a dated line and
\* another line is separated from the dated line before it by a blank line
C24Witness ==
    \E p \in 1..Len(content.pages) :
        /\ TextPageRead(p)
        /\ \E i \in 1..Len(StrippedLines(content.pages[p].text)) :
              Continues(StrippedLines(content.pages[p].text),
                        DatedBefore(StrippedLines(content.pages[p].text), i), i)
        /\ \E i \in 1..Len(StrippedLines(content.pages[p].text)) :
              /\ PlainLine(StrippedLines(content.pages[p].text), i)
              /\ DatedBefore(StrippedLines(content.pages[p].text), i) > 0
              /\ ~Continues(StrippedLines(content.pages[p].text),
                            DatedBefore(StrippedLines(content.pages[p].text), i), i)

(***************************************************************************)
(* C25                                                                     *)
(***************************************************************************)
\* the text of a block after the date that starts it, on one line
AfterDateText(block) ==
    StrStrip(CollapseSpaces(ReplaceChar(
        SubSeq(block, DateEnds(block, 1, {"-"}, <<4>>)[1] + 1, Len(block)),
        "\n", " ")))

\* the values of the numeric tokens of a text
TokenValues(text, matches) ==
    [k \in 1..Len(matches) |->
        ParseAmount(SubSeq(text, matches[k][1], matches[k][2]))]

\* the positive numeric tokens of a block
PositiveTokens(block) ==
    SelectSeq(TokenValues(AfterDateText(block), NumMatches(AfterDateText(block))),
              LAMBDA v : v > 0)

\* the block is a brought-forward entry
BroughtForwardText(block) == StartsWith(StrUpper(AfterDateText(block)), <<"B","/","F">>)

\* the balance is the largest of the tokens and the amount is another of them
MaxAndAnother(txn, tokens) ==
    /\ txn.balance = Some(SetMax({tokens[k] : k \in 1..Len(tokens)}))
    /\ \E k \in 1..Len(tokens) : \E m \in 1..Len(tokens) :
          /\ k # m
          /\ tokens[m] = Val(txn.balance)
          /\ txn.amount = Some(tokens[k])
    /\ Val(txn.amount) <= Val(txn.balance)

\* the outcomes of the block scan of the text of page p
BlockScan(p) == ExtractTransactionsAlternativeMethod(content.pages[p].text)

\* C25: in the block scan of every page text, a transaction emitted for a
\* block that is not a brought-forward entry has for balance the largest of
\* the positive numeric tokens of the block and for amount another of these
\* tokens, so that the amount is at most the balance; and a block with
\* fewer than two positive numeric tokens emits no transaction.
C25BalanceIsMaximum ==
    \A p \in 1..Len(content.pages) :
        TextPageRead(p) =>
            \A k \in 1..Len(BlockScan(p)) :
                /\ (~IsNone(BlockScan(p)[k].txn)
                     /\ ~BroughtForwardText(BlockScan(p)[k].source)) =>
                      MaxAndAnother(Val(BlockScan(p)[k].txn),
                                    PositiveTokens(BlockScan(p)[k].source))
                /\ Len(PositiveTokens(BlockScan(p)[k].source)) < 2 =>
                      IsNone(BlockScan(p)[k].txn)

\* a page text has been read with a block of two or more positive tokens
\* that emitted a transaction, and with a block of fewer that emitted none
C25Witness ==
    \E p \in 1..Len(content.pages) :
        /\ TextPageRead(p)
        /\ \E k \in 1..Len(BlockScan(p)) :
              /\ ~IsNone(BlockScan(p)[k].txn)
              /\ ~BroughtForwardText(BlockScan(p)[k].source)
              /\ Len(PositiveTokens(BlockScan(p)[k].source)) >= 2
              /\ Val(Val(BlockScan(p)[k].txn).amount)
                    < Val(Val(BlockScan(p)[k].txn).balance)
        /\ \E k \in 1..Len(BlockScan(p)) :
              /\ Len(PositiveTokens(BlockScan(p)[k].source)) < 2
              /\ IsNone(BlockScan(p)[k].txn)

(***************************************************************************)
(* C26                                                                     *)
(***************************************************************************)
\* the string as the formats see it: stripped, without the characters that
\* are neither digits, letters, blanks nor separators
CleanDateString(s) == SelectSeq(StrStrip(s), DateCharKept)

\* the three fields make a numeric date: two numbers of one or two digits
\* and a year of two or four digits
NumericFields(f) ==
    /\ Len(f) = 3
    /\ AllDigits(f[1]) /\ Len(f[1]) \in {1, 2}
    /\ AllDigits(f[2]) /\ Len(f[2]) \in {1, 2}
    /\ AllDigits(f[3]) /\ Len(f[3]) \in {2, 4}

\* the year a field of two or four digits stands for
YearOf(f) ==
    IF Len(f) = 4 THEN DigitsVal(f)
    ELSE IF DigitsVal(f) >= 69 THEN 1900 + DigitsVal(f) ELSE 2000 + DigitsVal(f)

\* the reading of the fields with the first number as the day
DayFirstReading(f) ==
    MakeDate(Some(YearOf(f[3])), Some(DigitsVal(f[2])), Some(DigitsVal(f[1])))

\* the reading of the fields with the first number as the month
MonthFirstReading(f) ==
    MakeDate(Some(YearOf(f[3])), Some(DigitsVal(f[1])), Some(DigitsVal(f[2])))

\* the rule for the fields of a numeric date and the date returned
DayFirstRule(f, returned) ==
    /\ ~IsNone(DayFirstReading(f)) => returned = DayFirstReading(f)
    /\ (~IsNone(returned) /\ returned = MonthFirstReading(f)
          /\ returned # DayFirstReading(f)) => IsNone(DayFirstReading(f))

\* the rule for a string written with a separator
DayFirstRuleFor(s, sep, returned) ==
    NumericFields(SplitOn(s, sep)) => DayFirstRule(SplitOn(s, sep), returned)

FailedUpload ==
    /\ response'.endpoint = "upload-statement"
    /\ response'.success # Some(TRUE)

\* the messages of an upload that failed while it was processed
ProcessingFailures == {ValidationFailed, FailedToProcessFile, NoTransactionsFound}

\* C27: an upload that fails, whether refused by the route, by validate_file,
\* by an exception of process_file or because no transaction was extracted,
\* is answered with an HTTP error and leaves the current transactions, the
\* categorized transactions, the category summary and the insights of the
\* team manager and the whole session (stored transactions, counters,
\* processing history) exactly as they were.
C27FailedUploadChangesNothing ==
    [][FailedUpload =>
        /\ response'.status_code \in {400, 413, 422}
        /\ response'.status_code = 400 <=> response'.message \in ProcessingFailures
        /\ UNCHANGED <<current_transactions, categorized_transactions,
                       category_summary, last_insights, session>>
      ]_vars

\* an upload without transactions has failed after a file had been
\* uploaded, categorized and analysed: all of it is still there
C27Witness ==
    /\ response.endpoint = "upload-statement"
    /\ response.status_code = 400
    /\ response.message = NoTransactionsFound
    /\ current_transactions # <<>>
    /\ categorized_transactions # <<>>
    /\ category_summary # <<>>
    /\ last_insights # None
    /\ session.transactions = current_transactions
    /\ session.session_stats.files_processed = 1
    /\ Len(session.processing_history) = 3

(***************************************************************************)
(* C28                                                                     *)
(***************************************************************************)
\* the step answers an upload that succeeded
SuccessfulUpload ==
    /\ response'.endpoint = "upload-statement"
    /\ response'.success = Some(TRUE)

\* the step answers a request for insights that succeeded
SuccessfulInsights ==
    /\ response'.endpoint = "generate-insights"
    /\ response'.success = Some(TRUE)

\* the actions of the entries of a processing history
HistoryActions(history) == [k \in 1..Len(history) |-> history[k].action]

\* C28: a successful upload loads the extracted transactions as the
\* current transactions of the team manager and the stored transactions of
\* the session, and leaves the categorized transactions, the category
\* summary and the insights as they were, in the team manager and in the
\* session; a request for insights that succeeds is answered from the
\* categorized transactions that are there, whatever was uploaded since.
C28UploadReplacesCurrentOnly ==
    [][/\ SuccessfulUpload =>
            /\ current_transactions' # <<>>
            /\ session'.transactions = current_transactions'
            /\ UNCHANGED <<categorized_transactions, category_summary,
                           last_insights>>
            /\ session'.categorized_transactions = session.categorized_transactions
            /\ session'.category_summary = session.category_summary
            /\ session'.insights = session.insights
       /\ SuccessfulInsights =>
            /\ categorized_transactions # <<>>
            /\ last_insights' = Some(FinancialInsights(categorized_transactions))
            /\ session'.insights = last_insights'
            /\ UNCHANGED <<current_transactions, categorized_transactions>>
      ]_vars

\* insights have been generated from the categorization of the first file
\* after a second file, of another length, was uploaded
C28Witness ==
    /\ response.endpoint = "generate-insights"
    /\ response.success = Some(TRUE)
    /\ HistoryActions(session.processing_history)
          = <<"file_upload", "categorization", "file_upload", "insights_generation">>
    /\ Len(current_transactions) # Len(categorized_transactions)
    /\ session.transactions = current_transactions
    /\ session.categorized_transactions = categorized_transactions
    /\ last_insights = Some(FinancialInsights(categorized_transactions))

(***************************************************************************)
(* C29                                                                     *)
(***************************************************************************)
\* the step answers a request to correct-transaction
CorrectionStep == response'.endpoint = "correct-transaction"

\* the index identifies one of the n categorized transactions
IdentifiesOne(index, n) == 0 <= index /\ index < n

\* C29: a request to correct-transaction whose index does not identify a
\* categorized transaction (it is negative, or the number of categorized
\* transactions or more) is rejected as an invalid transaction index and
\* changes no categorized transaction, category summary, correction list
\* or counter.
C29OnlyIndexedCorrections ==
    [][(CorrectionStep
          /\ ~IdentifiesOne(Val(index_arg'), Len(categorized_transactions))) =>
            /\ response'.status_code = 400
            /\ response'.message = InvalidTransactionIndex
            /\ UNCHANGED <<categorized_transactions, category_summary, session>>
      ]_vars

(***************************************************************************)
(* C30                                                                     *)
(***************************************************************************)
\* the number of entries of the processing history with the action
EntriesOf(history, action) ==
    Cardinality({k \in 1..Len(history) : history[k].action = action})

\* the counters of the session agree with its history and its corrections
CountersAgree(s) ==
    /\ s.session_stats.files_processed
          = EntriesOf(s.processing_history, "file_upload")
    /\ s.session_stats.insights_generated
          = EntriesOf(s.processing_history, "insights_generation")
    /\ s.session_stats.corrections_made = Len(s.user_corrections)
    /\ s.session_stats.corrections_made
          = EntriesOf(s.processing_history, "user_correction")

\* the first history is the beginning of the second
Extends(longer, shorter) ==
    /\ Len(shorter) <= Len(longer)
    /\ SubSeq(longer, 1, Len(shorter)) = shorter

\* C30: after any sequence of store_transactions,
\* store_categorized_transactions, store_insights, record_user_correction
\* and reset_session, files_processed is the number of file_upload entries
\* of the processing history, insights_generated the number of
\* insights_generation entries, corrections_made both the length of
\* user_corrections and the number of user_correction entries; and every
\* step but a reset keeps the entries of the history and adds at its end.
C30CountersMatchHistory ==
    /\ []CountersAgree(session)
    /\ [][response'.endpoint # "reset-session"
            => Extends(session'.processing_history, session.processing_history)
         ]_vars

\* a file has been stored, categorized, analysed and corrected: the history
\* has one entry of each action and the counters are 1
C30Witness ==
    /\ HistoryActions(session.processing_history)
          = <<"file_upload", "categorization", "insights_generation",
              "user_correction">>
    /\ session.session_stats.files_processed = 1
    /\ session.session_stats.insights_generated = 1
    /\ session.session_stats.corrections_made = 1
    /\ Len(session.user_corrections) = 1

=============================================================================
